---- MODULE Spec2Model ----
(***************************************************************************)
(* A model of openstack-snapsentry-go: the policy-window evaluator         *)
(* (internal/policy), the retry executor (internal/cloud/openstack) and    *)
(* the per-volume creation workflow (internal/workflow).                   *)
(*                                                                         *)
(* Instants are integers: minutes since 1970-01-01T00:00Z.  Durations are  *)
(* minutes in the policy part and abstract ticks in the retry part.        *)
(***************************************************************************)
EXTENDS Integers, Sequences, FiniteSets, TLC

VARIABLES
    \* ---- policy evaluation (internal/policy) ----
    policy,     \* the policy struct under evaluation (all four kinds share one record shape)
    ppc,        \* "raw" | "normalized" | "invalid" | "evaluated"
    now,        \* the instant handed to Evaluate
    lastSnap,   \* LastSnapshotInfo handed to Evaluate
    result,     \* PolicyEvalResult returned by Evaluate
    \* ---- retry executor (internal/cloud/openstack/helper.go) ----
    rcfg,       \* cloud.RetryConfig handed to ExecuteAction
    parentCtx,  \* the caller's context: [hasDeadline, deadline]
    rpc,        \* "idle" | "entry" | "precheck" | "call" | "backoff" | "returned"
    startedAt,  \* clock value at which ExecuteAction was entered
    clock,      \* elapsed time in ticks
    deadline,   \* deadline of the child context derived at entry
    attempt,    \* the loop variable
    attemptAt,  \* clock value at which the last operation call began
    opCalls,    \* number of calls of operation
    opFails,    \* number of calls of operation that returned an error
    sleeps,     \* number of backoff waits begun
    lastSleep,  \* sleepDuration of the last backoff wait
    lastErr,    \* the local lastErr (an error chain, <<>> is nil)
    retErr,     \* the error ExecuteAction returned
    outcome,    \* "" | "success" | "fatal" | "timeout" | "cancelled" | "exhausted" | "panic"
    \* ---- creation workflow (processVolume, CreateManagedSnapshot) ----
    volume,           \* the policy configuration carried by the volume's metadata
    wpc,              \* "idle" | "list" | "evaluate" | "create" | "creating" | "created"
    runs,             \* number of policy iterations of processVolume begun
    backend,          \* the snapshots the block-storage service holds for the volume
    createdSnapshot,  \* the variable createOperation assigns inside CreateManagedSnapshot
    createdSnap,      \* the snapshot CreateManagedSnapshot returned to processVolume
    createErr,        \* the error CreateManagedSnapshot returned to processVolume
    deleteIssued,     \* ids for which processVolume called DeleteSnapshot
    \* ---- pure functions applied to an input ----
    fn,               \* "" before the call, then the name of the function applied
    arg,              \* the input
    ret,              \* the value returned
    \* ---- expiry workflow (RunProjectSnapshotExpiryWorkflow) ----
    xpc,              \* position of the expiry workflow: "idle" | "list" | "loop" | "returned"
    refTime,          \* the reference time now handed to the workflow
    cinder,           \* the snapshots the block-storage service holds, with their metadata
    managedSnapshots, \* the slice ListManagedSnapshots returned
    idx,              \* number of loop iterations over managedSnapshots completed
    deleteCalls,      \* ids for which processSnapshotExpiry called DeleteSnapshot
    deleteFailed,     \* ids for which DeleteSnapshot returned an error
    ctxDone,          \* whether the deadline of the workflow context has passed
    xret,             \* what the workflow returned: "" | "nil" | "error" | "deadline exceeded"
    \* ---- volume subscription (CreateVolumeSubscription) ----
    spc,              \* position of CreateVolumeSubscription: "idle" | "subscribing" | "returned"
    volMeta,          \* the metadata the service holds for the volume
    initialMeta,      \* the metadata the volume had when CreateVolumeSubscription was called
    patch,            \* the metadata argument: the policy tags to write
    subscribedVolume, \* the variable subscriptionOperation assigns: the updated volume's metadata
    subResult,        \* the metadata of the volume CreateVolumeSubscription returned
    subErr,           \* the error CreateVolumeSubscription returned
    \* ---- creation orchestrator (RunProjectSnapshotWorkflow, processVolumeGroup) ----
    opc,              \* position of the orchestrator: "idle" | "list" | "next" | "spawn" | "wait" | "returned"
    managedVolumes,   \* the volumes ListSubscribedVolumes returns
    attachedLeft,     \* keys of groupedVolumes.Attached not yet ranged over
    multiLeft,        \* rest of groupedVolumes.MultiAttached
    unattachedLeft,   \* rest of groupedVolumes.Unattached
    vols,             \* the volumes of the processVolumeGroup call in progress
    vi,               \* number of volumes of vols the spawn loop has passed
    groupNo,          \* number of processVolumeGroup calls begun
    running,          \* the workers started and not yet done: [ID, group, seen]
    started,          \* every worker started so far: [ID, group]
    failed,           \* ids of the volumes whose processVolume returned an error
    successCount,     \* the counter successCount
    errorCount,       \* the counter errorCount
    octxDone,         \* whether the deadline of the workflow context has passed
    oret,             \* what the workflow returned: "" | "nil" | an error text
    \* ---- one volume's policies in turn (processVolume) ----
    kpc,              \* position of processVolume: "idle" | "load" | "listing" | "creating" | "notifying" | "returned"
    ki,               \* index into policies of the iteration in progress
    volMetadata,      \* vol.Metadata
    wallClock,        \* what time.Now() returns during the run
    covered,          \* the kinds for which the service holds a snapshot taken a minute ago
    evalResult,       \* result of p.Evaluate in the iteration in progress
    callLog,          \* calls to other services and their returns: [kind, op, ev, failed]
    inflight,         \* the calls issued and not yet returned: [kind, op]
    execErrors,       \* the errors joined into execErrors, in order: [kind, step]
    \* ---- listings run by the retry executor (volume.go, snapshot.go) ----
    lpc,              \* position of the listing: "idle" | "listing" | "paging" | "returned"
    listFn,           \* "" | "ListSubscribedVolumes" | "ListManagedVolumeSnapshots"
    listArgs,         \* the arguments: [volumeID, policyType, lastSnapshotOnly]
    volumePages,      \* the pages volumes.List answers with, each a list of volumes
    snapshotStore,    \* the snapshots the service holds, newest first
    collected,        \* the slice the closure appends to (allVolumes, managedSnapshots)
    pageNo,           \* pages handed to the EachPage callback in the attempt in progress
    partial,          \* whether a failed attempt left entries in the slice
    listResult,       \* the slice the listing returned
    listErr           \* the error the listing returned

evalVars == <<policy, ppc, now, lastSnap, result>>

retryVars == <<rcfg, parentCtx, rpc, startedAt, clock, deadline, attempt, attemptAt,
               opCalls, opFails, sleeps, lastSleep, lastErr, retErr, outcome>>

workflowVars == <<volume, wpc, runs, backend, createdSnapshot, createdSnap, createErr,
                  deleteIssued>>

\* the variables of the codecs, the expiry workflow, the subscription and the
\* orchestrator, by part
codecVars == <<fn, arg, ret>>

expiryVars == <<xpc, refTime, cinder, managedSnapshots, idx, deleteCalls,
                deleteFailed, ctxDone, xret>>

subVars == <<spc, volMeta, initialMeta, patch, subscribedVolume, subResult,
             subErr>>

orchVars == <<opc, managedVolumes, attachedLeft, multiLeft, unattachedLeft,
              vols, vi, groupNo, running, started, failed, successCount,
              errorCount, octxDone, oret>>

pvVars == <<kpc, ki, volMetadata, wallClock, covered, evalResult, callLog,
            inflight, execErrors>>

lstVars == <<lpc, listFn, listArgs, volumePages, snapshotStore, collected,
             pageNo, partial, listResult, listErr>>

extVars == <<codecVars, expiryVars, subVars, orchVars, pvVars, lstVars>>

\* everything but one part
codecFrame == <<evalVars, retryVars, workflowVars, expiryVars, subVars,
                orchVars, pvVars, lstVars>>

expiryFrame == <<evalVars, retryVars, workflowVars, codecVars, subVars,
                 orchVars, pvVars, lstVars>>

subFrame == <<evalVars, retryVars, workflowVars, codecVars, expiryVars,
              orchVars, pvVars, lstVars>>

orchFrame == <<evalVars, retryVars, workflowVars, codecVars, expiryVars,
               subVars, pvVars, lstVars>>

pvFrame == <<evalVars, retryVars, workflowVars, codecVars, expiryVars,
             subVars, orchVars, lstVars>>

lstFrame == <<evalVars, retryVars, workflowVars, codecVars, expiryVars,
              subVars, orchVars, pvVars>>

\* everything but one part and the retry executor that part runs under
subCallFrame == <<evalVars, workflowVars, codecVars, expiryVars, orchVars,
                  pvVars, lstVars>>

lstCallFrame == <<evalVars, workflowVars, codecVars, expiryVars, subVars,
                  orchVars, pvVars>>

vars == <<evalVars, retryVars, workflowVars, extVars>>

(***************************************************************************)
(* Calendar arithmetic of package time (proleptic Gregorian, minutes).     *)
(***************************************************************************)
MinutesPerDay == 24 * 60

Min2(a, b) == IF a < b THEN a ELSE b

IsLeap(y) == (y % 4 = 0) /\ ((y % 100 # 0) \/ (y % 400 = 0))

\* days before the first of month m (1..12) in a non-leap year
DaysBefore(m) == <<0, 31, 59, 90, 120, 151, 181, 212, 243, 273, 304, 334>>[m]

LeapsBefore(y) == ((y - 1) \div 4) - ((y - 1) \div 100) + ((y - 1) \div 400)

\* days from 1970-01-01 to the first of January of year y
DaysToYear(y) == 365 * (y - 1970) + LeapsBefore(y) - LeapsBefore(1970)

\* time.Date normalises an out-of-range month into the year (month 0 is
\* December of the year before, month 13 January of the year after) and lets
\* day, hour and minute overflow linearly.
NormYear(y, m) == y + ((m - 1) \div 12)
NormMonth(m) == ((m - 1) % 12) + 1

DaysFromNormalized(yy, mm, d) ==
    DaysToYear(yy) + DaysBefore(mm) + (IF IsLeap(yy) /\ mm >= 3 THEN 1 ELSE 0) + (d - 1)

DaysFromCivil(y, m, d) == DaysFromNormalized(NormYear(y, m), NormMonth(m), d)

\* the civil reading "as if UTC" of (y, m, d, h, mi), in minutes
CivilMinutes(y, m, d, h, mi) == DaysFromCivil(y, m, d) * MinutesPerDay + h * 60 + mi

\* civil date of a day number (days since 1970-01-01), computed in steps:
\* 400-year era and day of era, year of era, day of year (from 1 March), month
CivilRecord(y, m, d) == [year |-> y + (IF m <= 2 THEN 1 ELSE 0), month |-> m, day |-> d]

CivilFromMp(era, yoe, doy, mp) ==
    CivilRecord(yoe + era * 400, IF mp < 10 THEN mp + 3 ELSE mp - 9,
                doy - ((153 * mp + 2) \div 5) + 1)

CivilFromDoy(era, yoe, doy) == CivilFromMp(era, yoe, doy, (5 * doy + 2) \div 153)

CivilFromYoe(era, doe, yoe) ==
    CivilFromDoy(era, yoe, doe - (365 * yoe + (yoe \div 4) - (yoe \div 100)))

CivilFromDoe(era, doe) ==
    CivilFromYoe(era, doe,
                 (doe - (doe \div 1460) + (doe \div 36524) - (doe \div 146096)) \div 365)

CivilFromDays(days) == CivilFromDoe((days + 719468) \div 146097, (days + 719468) % 146097)

\* time.Weekday of a day number: 0 = Sunday ... 6 = Saturday
WeekdayOfDays(days) == (days + 4) % 7

\* the zero time.Time: January 1, year 1, 00:00 UTC
ZeroTime == CivilMinutes(1, 1, 1, 0, 0)

IsZero(t) == t = ZeroTime

(***************************************************************************)
(* Time zones (time.LoadLocation).  Three IANA zones stand for the three   *)
(* shapes a zone can have: UTC, a fixed offset that is not a whole hour,   *)
(* and a zone with daylight saving time.                                   *)
(***************************************************************************)
KnownZones == {"UTC", "Asia/Kolkata", "Europe/Paris"}

\* day number of the last Sunday of month m of year y
SundayOnOrBefore(day) == day - WeekdayOfDays(day)

LastSundayOf(y, m) == SundayOnOrBefore(DaysFromCivil(y, m + 1, 1) - 1)

\* Europe/Paris: CEST (+02:00) from the last Sunday of March 01:00 UTC to the
\* last Sunday of October 01:00 UTC, CET (+01:00) otherwise.
ParisIsDSTInYear(t, y) ==
    /\ t >= LastSundayOf(y, 3) * MinutesPerDay + 60
    /\ t <  LastSundayOf(y, 10) * MinutesPerDay + 60

ParisIsDST(t) == ParisIsDSTInYear(t, CivilFromDays(t \div MinutesPerDay).year)

\* offset from UTC in force at UTC instant t, in minutes
ZoneOffset(zone, t) ==
    CASE zone = "UTC"          -> 0
      [] zone = "Asia/Kolkata" -> 330
      [] zone = "Europe/Paris" -> IF ParisIsDST(t) THEN 120 ELSE 60

\* time.Date(y, m, d, h, mi, 0, 0, loc): the offset is looked up at the civil
\* reading taken as UTC, and looked up again at the resulting instant when
\* that instant falls outside the zone period found first.
DateOfCivil(civil, zone) == civil - ZoneOffset(zone, civil - ZoneOffset(zone, civil))

Date(y, m, d, h, mi, zone) == DateOfCivil(CivilMinutes(y, m, d, h, mi), zone)

\* the calendar fields of a local reading l (minutes), whose civil date is c
LocalFields(c, l) ==
    [year |-> c.year, month |-> c.month, day |-> c.day,
     hour |-> (l % MinutesPerDay) \div 60, minute |-> l % 60,
     weekday |-> WeekdayOfDays(l \div MinutesPerDay)]

LocalOf(l) == LocalFields(CivilFromDays(l \div MinutesPerDay), l)

\* t.In(loc) read as calendar fields
Local(t, zone) == LocalOf(t + ZoneOffset(zone, t))

\* t.AddDate(years, months, days) for a time whose location is zone
AddToLocal(c, years, months, days, zone) ==
    Date(c.year + years, c.month + months, c.day + days, c.hour, c.minute, zone)

AddDate(t, years, months, days, zone) == AddToLocal(Local(t, zone), years, months, days, zone)

(***************************************************************************)
(* Clock strings.  A string the code looks into is a sequence of           *)
(* one-character strings, so that parsing and formatting are computed.     *)
(***************************************************************************)
DigitChars == <<"0", "1", "2", "3", "4", "5", "6", "7", "8", "9">>

IsDigit(s, i) == i <= Len(s) /\ \E k \in 1..10 : DigitChars[k] = s[i]

DigitValue(c) == (CHOOSE k \in 1..10 : DigitChars[k] = c) - 1

\* getnum of package time: one or two digits (exactly two when fixed)
GetNum(s, fixed) ==
    IF ~IsDigit(s, 1) THEN [ok |-> FALSE, val |-> 0, rest |-> s]
    ELSE IF ~IsDigit(s, 2)
         THEN IF fixed THEN [ok |-> FALSE, val |-> 0, rest |-> s]
              ELSE [ok |-> TRUE, val |-> DigitValue(s[1]), rest |-> Tail(s)]
         ELSE [ok |-> TRUE, val |-> 10 * DigitValue(s[1]) + DigitValue(s[2]),
               rest |-> SubSeq(s, 3, Len(s))]

\* a number that must follow a ":"; fails when the ":" is missing
GetNumAfterColon(s) ==
    IF Len(s) >= 1 /\ s[1] = ":" THEN GetNum(Tail(s), TRUE)
    ELSE [ok |-> FALSE, val |-> 0, rest |-> s]

ClockError == [ok |-> FALSE, hour |-> 0, minute |-> 0]

ClockOK(h, m) == [ok |-> TRUE, hour |-> h, minute |-> m]

\* the seconds field of time.TimeOnly and the end of the text
ParseSeconds(h, m, sc) ==
    IF sc.ok /\ sc.val < 60 /\ sc.rest = <<>> THEN ClockOK(h.val, m.val) ELSE ClockError

ParseMinutes(h, m, withSeconds) ==
    IF ~m.ok \/ m.val >= 60 THEN ClockError
    ELSE IF withSeconds THEN ParseSeconds(h, m, GetNumAfterColon(m.rest))
    ELSE IF m.rest = <<>> THEN ClockOK(h.val, m.val)
    ELSE ClockError

ParseHour(h, withSeconds) ==
    IF ~h.ok \/ h.val >= 24 THEN ClockError
    ELSE ParseMinutes(h, GetNumAfterColon(h.rest), withSeconds)

\* time.Parse("15:04", s) when withSeconds is FALSE, time.Parse(time.TimeOnly, s) otherwise
ParseClock(s, withSeconds) == ParseHour(GetNum(s, FALSE), withSeconds)

\* fmt.Sprintf("%02d:%02d", h, m)
FormatClock(h, m) ==
    <<DigitChars[(h \div 10) + 1], DigitChars[(h % 10) + 1], ":",
      DigitChars[(m \div 10) + 1], DigitChars[(m % 10) + 1]>>

(***************************************************************************)
(* internal/policy/helper.go: the Normalize helpers.                       *)
(***************************************************************************)
\* helperNormalizeTimezone: [ok, timezone, loc]; loc "" stands for nil
LoadLocation(tz) ==
    IF tz \in KnownZones
    THEN [ok |-> TRUE, timezone |-> tz, loc |-> tz]
    ELSE [ok |-> FALSE, timezone |-> tz, loc |-> ""]

helperNormalizeTimezone(timezone) == LoadLocation(IF timezone = "" THEN "UTC" ELSE timezone)

\* a variant that keeps a retention of zero or less
helperNormalizeRetentionDays_keep(days, defaultDays) == days

helperNormalizeRetentionDays(days, defaultDays) ==
    IF days <= 0 THEN defaultDays ELSE days

ShortOrLongClock(st, short) == IF short.ok THEN short ELSE ParseClock(st, TRUE)

ParseStartTime(st) == ShortOrLongClock(st, ParseClock(st, FALSE))

helperNormalizeStartTime(startTime) ==
    ParseStartTime(IF startTime = <<>> THEN <<"0", "0", ":", "0", "0", ":", "0", "0">>
                   ELSE startTime)

\* the switch of helperNormalizeDay: [ok, weekday], Sunday = 0
NormalizeDayName(d) ==
        CASE d \in {"Sunday", "Sun", "sun", "sunday", "0"}          -> [ok |-> TRUE, weekday |-> 0]
          [] d \in {"Monday", "Mon", "mon", "monday", "1"}          -> [ok |-> TRUE, weekday |-> 1]
          [] d \in {"Tuesday", "Tue", "tue", "tuesday", "2"}        -> [ok |-> TRUE, weekday |-> 2]
          [] d \in {"Wednesday", "Wed", "wed", "wednesday", "3"}    -> [ok |-> TRUE, weekday |-> 3]
          [] d \in {"Thursday", "Thu", "thu", "thursday", "4"}      -> [ok |-> TRUE, weekday |-> 4]
          [] d \in {"Friday", "Fri", "fri", "friday", "5"}          -> [ok |-> TRUE, weekday |-> 5]
          [] d \in {"Saturday", "Sat", "sat", "saturday", "6"}      -> [ok |-> TRUE, weekday |-> 6]
          [] OTHER                                                  -> [ok |-> FALSE, weekday |-> 0]

helperNormalizeDay(dayStr) == NormalizeDayName(IF dayStr = "" THEN "sunday" ELSE dayStr)

\* strings.ToLower(weekday.String())
WeekdayName(w) ==
    <<"sunday", "monday", "tuesday", "wednesday", "thursday", "friday", "saturday">>[w + 1]

\* helperGetMonthlyDate: day targetDay of (year, month), clamped to the month's last day
ClampDay_none(targetDay, lastDay) == targetDay

ClampDay(targetDay, lastDay) == IF targetDay > lastDay THEN lastDay ELSE targetDay

helperGetMonthlyDate(year, month, targetDay, hour, min, loc) ==
    LET firstOfMonth == Date(year, month, 1, hour, min, loc)
        lastOfMonth  == AddDate(firstOfMonth, 0, 1, -1, loc)
        actualDay    == ClampDay(targetDay, Local(lastOfMonth, loc).day)
    IN  Date(year, month, actualDay, hour, min, loc)
(***************************************************************************)
(* internal/policy/helper.go: helperEvaluateWindow.                        *)
(***************************************************************************)
EmptyWindow == [StartTime |-> ZeroTime, EndTime |-> ZeroTime, ValidatedTime |-> ZeroTime]

EmptyMetadata == [Managed |-> FALSE, ExpiryDate |-> ZeroTime, PolicyType |-> "", RetentionDays |-> 0]

EmptyResult ==
    [ShouldSnapshot |-> FALSE, Window |-> EmptyWindow, Metadata |-> EmptyMetadata, Reason |-> ""]

\* LastSnapshotInfo{}: no previous snapshot
NoSnapshot == [ID |-> "", CreatedAt |-> ZeroTime]

\* a variant that never steps back to the previous cycle
WindowStartFor_current(t, potentialStart, duration) == potentialStart

\* 1. window bounds: before the potential start the previous cycle is active
WindowStartFor(t, potentialStart, duration) ==
    IF t < potentialStart THEN potentialStart - duration ELSE potentialStart

\* a variant without the upper bound
IsInsideWindow_noEnd(t, window) == t = window.StartTime \/ t > window.StartTime

\* a variant that excludes the start instant itself
IsInsideWindow_afterStart(t, window) == t > window.StartTime /\ t < window.EndTime

\* 2. strict range check: Start <= t < End
IsInsideWindow(t, window) ==
    (t = window.StartTime \/ t > window.StartTime) /\ t < window.EndTime

\* a variant that misses a snapshot created exactly at the window start
HasSnapshotInWindow_afterStart(lastSnapshot, window) ==
    /\ ~IsZero(lastSnapshot.CreatedAt)
    /\ lastSnapshot.CreatedAt > window.StartTime
    /\ lastSnapshot.CreatedAt < window.EndTime

\* 3. idempotency check: a previous snapshot exists with Start <= CreatedAt < End
HasSnapshotInWindow(lastSnapshot, window) ==
    /\ ~IsZero(lastSnapshot.CreatedAt)
    /\ (lastSnapshot.CreatedAt = window.StartTime \/ lastSnapshot.CreatedAt > window.StartTime)
    /\ lastSnapshot.CreatedAt < window.EndTime

helperEvaluateWindow(t, potentialStart, duration, lastSnapshot) ==
    LET start  == WindowStartFor(t, potentialStart, duration)
        window == [StartTime |-> start, EndTime |-> start + duration, ValidatedTime |-> t]
    IN  IF ~IsInsideWindow(t, window)
        THEN [ShouldSnapshot |-> FALSE, Window |-> window, Metadata |-> EmptyMetadata,
              Reason |-> "outside the active window"]
        ELSE IF HasSnapshotInWindow(lastSnapshot, window)
        THEN [ShouldSnapshot |-> FALSE, Window |-> window, Metadata |-> EmptyMetadata,
              Reason |-> "snapshot already exists in active window"]
        ELSE [ShouldSnapshot |-> TRUE, Window |-> window, Metadata |-> EmptyMetadata,
              Reason |-> "window is active and no existing snapshot found"]

(***************************************************************************)
(* The four policy kinds.  One record shape serves all four structs; a     *)
(* field a kind does not have stays at its zero value.                     *)
(***************************************************************************)
PolicyKinds_weeklyFirst == <<"weekly", "express", "daily", "monthly">>

PolicyKinds == <<"express", "daily", "weekly", "monthly">>

\* one default for every kind
DefaultRetention_daily(kind) == 2

\* the default each Normalize hands to helperNormalizeRetentionDays
DefaultRetention(kind) ==
    CASE kind = "express" -> 1
      [] kind = "daily"   -> 2
      [] kind = "weekly"  -> 7
      [] kind = "monthly" -> 30

\* the struct as ParseFromMetadata leaves it: configuration set, internal fields zero
NewPolicy(kind, enabled, retention, tz, startTime, dayOfWeek, dayOfMonth, interval) ==
    [kind |-> kind, Enabled |-> enabled, RetentionDays |-> retention, RetentionType |-> "",
     TimeZone |-> tz, StartTime |-> startTime, DayOfWeek |-> dayOfWeek, DayOfMonth |-> dayOfMonth,
     IntervalHours |-> interval,
     Loc |-> "", startHour |-> 0, startMinute |-> 0, startDayWeekday |-> 0]

\* Normalize of Daily, Weekly and Monthly, step by step; each step gets the
\* struct as the steps before left it, and an error returns it as it stands.
\* 3. start time
NormalizeStart(s, st) ==
    IF ~st.ok THEN [ok |-> FALSE, p |-> s]
    ELSE [ok |-> TRUE,
          p  |-> [s EXCEPT !.startHour = st.hour, !.startMinute = st.minute,
                           !.StartTime = FormatClock(st.hour, st.minute)]]

\* 2. retention days
NormalizeRetention(s) ==
    NormalizeStart([s EXCEPT !.RetentionDays =
                                 helperNormalizeRetentionDays(@, DefaultRetention(s.kind))],
                   helperNormalizeStartTime(s.StartTime))

\* 1. timezone
NormalizeZone(s, tz) ==
    IF ~tz.ok THEN [ok |-> FALSE, p |-> s]
    ELSE NormalizeRetention([s EXCEPT !.Loc = tz.loc, !.TimeZone = tz.timezone])

NormalizeCommon(s) == NormalizeZone(s, helperNormalizeTimezone(s.TimeZone))

\* SnapshotPolicyDaily.Normalize
NormalizeDaily(s) == NormalizeCommon(s)

\* 4. day of week
NormalizeWeekday(c, wd) ==
    IF ~c.ok THEN c
    ELSE IF ~wd.ok THEN [ok |-> FALSE, p |-> c.p]
    ELSE [ok |-> TRUE,
          p  |-> [c.p EXCEPT !.startDayWeekday = wd.weekday,
                             !.DayOfWeek = WeekdayName(wd.weekday)]]

\* SnapshotPolicyWeekly.Normalize
NormalizeWeekly(s) == NormalizeWeekday(NormalizeCommon(s), helperNormalizeDay(s.DayOfWeek))

\* 4. day of month, clamped to 1..31
NormalizeDayOfMonth(c) ==
    IF ~c.ok THEN c
    ELSE [ok |-> TRUE,
          p  |-> [c.p EXCEPT !.DayOfMonth = IF @ < 1 THEN 1 ELSE IF @ > 31 THEN 31 ELSE @]]

\* SnapshotPolicyMonthly.Normalize
NormalizeMonthly(s) == NormalizeDayOfMonth(NormalizeCommon(s))

\* a switch that also lets the daily interval through
NormalizeInterval_allowsDaily(s) ==
    IF s.IntervalHours \notin {6, 8, 12, 24} THEN [ok |-> FALSE, p |-> s]
    ELSE [ok |-> TRUE,
          p  |-> [s EXCEPT !.RetentionDays =
                               helperNormalizeRetentionDays(@, DefaultRetention("express")),
                           !.startHour = 0, !.startMinute = 0]]

\* 2. the switch over s.IntervalHours, then 4. retention days and start
NormalizeInterval(s) ==
    IF s.IntervalHours \notin {6, 8, 12} THEN [ok |-> FALSE, p |-> s]
    ELSE [ok |-> TRUE,
          p  |-> [s EXCEPT !.RetentionDays =
                               helperNormalizeRetentionDays(@, DefaultRetention("express")),
                           !.startHour = 0, !.startMinute = 0]]

NormalizeExpressZone(s, tz) ==
    IF ~tz.ok THEN [ok |-> FALSE, p |-> s]
    ELSE NormalizeInterval([s EXCEPT !.Loc = tz.loc, !.TimeZone = tz.timezone,
                                     !.IntervalHours = IF @ <= 0 THEN 6 ELSE @])

\* SnapshotPolicyExpress.Normalize
NormalizeExpress(s) == NormalizeExpressZone(s, helperNormalizeTimezone(s.TimeZone))

Normalize(s) ==
    CASE s.kind = "express" -> NormalizeExpress(s)
      [] s.kind = "daily"   -> NormalizeDaily(s)
      [] s.kind = "weekly"  -> NormalizeWeekly(s)
      [] s.kind = "monthly" -> NormalizeMonthly(s)

\* the metadata every kind fills in after a positive decision
TakeMetadata(s, window) ==
    [Managed |-> TRUE,
     ExpiryDate |-> AddDate(window.StartTime, 0, 0, s.RetentionDays, s.Loc),
     PolicyType |-> s.kind,
     RetentionDays |-> s.RetentionDays]

DisabledResult == [EmptyResult EXCEPT !.Reason = "policy is disabled"]

WithMetadata(s, r) ==
    IF r.ShouldSnapshot THEN [r EXCEPT !.Metadata = TakeMetadata(s, r.Window)] ELSE r

\* today at the start time, for the local reading ref of the evaluation instant
DailyStart(s, ref) == Date(ref.year, ref.month, ref.day, s.startHour, s.startMinute, s.Loc)

\* SnapshotPolicyDaily.Evaluate
EvaluateDaily(s, t, lastSnapshot) ==
    IF ~s.Enabled THEN DisabledResult
    ELSE WithMetadata(s, helperEvaluateWindow(t, DailyStart(s, Local(t, s.Loc)),
                                              24 * 60, lastSnapshot))

\* the date aligned to the target weekday, at the start time
WeeklyStart(s, aligned) ==
    Date(aligned.year, aligned.month, aligned.day, s.startHour, s.startMinute, s.Loc)

WeeklyAligned(s, t, currentWeekday) ==
    Local(AddDate(t, 0, 0, s.startDayWeekday - currentWeekday, s.Loc), s.Loc)

\* SnapshotPolicyWeekly.Evaluate
EvaluateWeekly(s, t, lastSnapshot) ==
    IF ~s.Enabled THEN DisabledResult
    ELSE WithMetadata(s, helperEvaluateWindow(
                             t, WeeklyStart(s, WeeklyAligned(s, t, Local(t, s.Loc).weekday)),
                             7 * 24 * 60, lastSnapshot))

\* the anchor of the month `shift` months away from the local reading ref
MonthlyAnchor(s, ref, shift) ==
    helperGetMonthlyDate(ref.year, ref.month + shift, s.DayOfMonth,
                         s.startHour, s.startMinute, s.Loc)

\* a variant that always takes this month's window
MonthlyBounds_thisMonth(s, t, ref, thisMonthTarget) ==
    <<thisMonthTarget, MonthlyAnchor(s, ref, 1)>>

\* the two boundaries of the active window: [start, next]
MonthlyBounds(s, t, ref, thisMonthTarget) ==
    IF t < thisMonthTarget
    THEN <<MonthlyAnchor(s, ref, -1), thisMonthTarget>>
    ELSE <<thisMonthTarget, MonthlyAnchor(s, ref, 1)>>

MonthlyWindow(s, t, ref) == MonthlyBounds(s, t, ref, MonthlyAnchor(s, ref, 0))

MonthlyDecision(t, bounds, lastSnapshot) ==
    helperEvaluateWindow(t, bounds[1], bounds[2] - bounds[1], lastSnapshot)

\* SnapshotPolicyMonthly.Evaluate
EvaluateMonthly(s, t, lastSnapshot) ==
    IF ~s.Enabled THEN DisabledResult
    ELSE WithMetadata(s, MonthlyDecision(t, MonthlyWindow(s, t, Local(t, s.Loc)), lastSnapshot))

\* the start of the current bucket: local midnight plus the slot's hours
ExpressStart(s, ref) ==
    Date(ref.year, ref.month, ref.day, 0, 0, s.Loc)
      + ((ref.hour \div s.IntervalHours) * s.IntervalHours) * 60

\* SnapshotPolicyExpress.Evaluate
EvaluateExpress(s, t, lastSnapshot) ==
    IF ~s.Enabled THEN DisabledResult
    ELSE WithMetadata(s, helperEvaluateWindow(t, ExpressStart(s, Local(t, s.Loc)),
                                              s.IntervalHours * 60, lastSnapshot))

Evaluate(s, t, lastSnapshot) ==
    CASE s.kind = "express" -> EvaluateExpress(s, t, lastSnapshot)
      [] s.kind = "daily"   -> EvaluateDaily(s, t, lastSnapshot)
      [] s.kind = "weekly"  -> EvaluateWeekly(s, t, lastSnapshot)
      [] s.kind = "monthly" -> EvaluateMonthly(s, t, lastSnapshot)

(***************************************************************************)
(* The retry executor: isRetryable and ExecuteAction.                      *)
(* An error is a chain of layers, outermost first; the empty chain is nil. *)
(***************************************************************************)
Nil == <<>>

ErrLayer(type, code, text) == [type |-> type, code |-> code, text |-> text]

\* gophercloud.ErrUnexpectedResponseCode{Actual: code}
ResponseCodeErr(code) == <<ErrLayer("ErrUnexpectedResponseCode", code, "")>>

\* a transport failure: connection reset, DNS failure
NetErr == <<ErrLayer("net.OpError", 0, "")>>

\* ctx.Err() of a context whose deadline has passed
DeadlineExceeded == <<ErrLayer("context.deadlineExceededError", 0, "")>>

\* fmt.Errorf("text %d: %w", n, err)
Wrap(text, n, err) == <<ErrLayer("fmt.wrapError", n, text)>> \o err

\* errors.As(err, &gopherErrors): the first layer of the chain of that type
RECURSIVE AsResponseCode(_)
AsResponseCode(err) ==
    IF err = Nil THEN [found |-> FALSE, Actual |-> 0]
    ELSE IF Head(err).type = "ErrUnexpectedResponseCode"
         THEN [found |-> TRUE, Actual |-> Head(err).code]
         ELSE AsResponseCode(Tail(err))

\* 429, 408, 500, 503, 504
RetryableStatus == {429, 408, 500, 503, 504}

IsRetryableCode(as) == IF as.found THEN as.Actual \in RetryableStatus ELSE TRUE

\* a variant that retries everything
isRetryable_always(err) == TRUE

\* a variant that also retries 502 Bad Gateway
isRetryable_with502(err) == IsRetryableCode(AsResponseCode(err)) \/ AsResponseCode(err).Actual = 502

isRetryable(err) == IsRetryableCode(AsResponseCode(err))

\* a context: whether it carries a deadline, and which
NoDeadlineCtx == [hasDeadline |-> FALSE, deadline |-> 0]

DeadlineCtx(d) == [hasDeadline |-> TRUE, deadline |-> d]

\* a variant that ignores the deadline of the parent
WithTimeout_ignoreParent(parent, t, timeout) == DeadlineCtx(t + timeout)

\* context.WithTimeout(parent, timeout) called at instant t: the child keeps
\* the parent's deadline when that one is earlier
WithTimeout(parent, t, timeout) ==
    IF parent.hasDeadline /\ parent.deadline < t + timeout
    THEN DeadlineCtx(parent.deadline)
    ELSE DeadlineCtx(t + timeout)

\* ctx.Err() != nil on the child context at instant t
ContextDone(t, d) == t >= d

RECURSIVE Pow2(_)
Pow2(n) == IF n <= 0 THEN 1 ELSE 2 * Pow2(n - 1)

\* float64(cfg.BaseDelay) * math.Pow(2, float64(attempt)), converted with int64()
BackoffOf(cfg, a) == cfg.BaseDelay * Pow2(a)

\* the argument handed to rand.Int63n, which panics unless it is positive
JitterBound(cfg, a) == BackoffOf(cfg, a) \div 2

\* a variant that treats the attempt before the last as the last
IsLastAttempt_early(a, cfg) == a + 1 >= cfg.MaxRetries

IsLastAttempt(a, cfg) == a = cfg.MaxRetries

Max2(a, b) == IF a > b THEN a ELSE b

\* the zero value of cloud.RetryConfig
ZeroRetryConfig == [MaxRetries |-> 0, BaseDelay |-> 0, MaxDelay |-> 0, OperationTimeout |-> 0]

RetryIdle ==
    /\ rcfg = ZeroRetryConfig
    /\ parentCtx = NoDeadlineCtx
    /\ rpc = "idle"
    /\ startedAt = 0
    /\ clock = 0
    /\ deadline = 0
    /\ attempt = 0
    /\ attemptAt = 0
    /\ opCalls = 0
    /\ opFails = 0
    /\ sleeps = 0
    /\ lastSleep = 0
    /\ lastErr = Nil
    /\ retErr = Nil
    /\ outcome = ""

\* the executor's frame is gone once its caller has taken the result
RetryReset ==
    /\ rcfg' = ZeroRetryConfig
    /\ parentCtx' = NoDeadlineCtx
    /\ rpc' = "idle"
    /\ startedAt' = 0
    /\ clock' = 0
    /\ deadline' = 0
    /\ attempt' = 0
    /\ attemptAt' = 0
    /\ opCalls' = 0
    /\ opFails' = 0
    /\ sleeps' = 0
    /\ lastSleep' = 0
    /\ lastErr' = Nil
    /\ retErr' = Nil
    /\ outcome' = ""

\* snapshots.Snapshot{} and the fields of a snapshot the workflow reads; Name
\* holds the window start that generateSnapshotName writes into the name
EmptySnapshot == [ID |-> "", PolicyType |-> "", CreatedAt |-> ZeroTime, Status |-> "", Name |-> ZeroTime]

WorkflowIdle ==
    /\ volume = NewPolicy("daily", FALSE, 0, "", <<>>, "", 0, 0)
    /\ wpc = "idle"
    /\ runs = 0
    /\ backend = {}
    /\ createdSnapshot = EmptySnapshot
    /\ createdSnap = EmptySnapshot
    /\ createErr = Nil
    /\ deleteIssued = {}

\* no pure function applied
CodecIdle ==
    /\ fn = ""
    /\ arg = <<>>
    /\ ret = <<>>

\* no expiry workflow running
ExpiryIdle ==
    /\ xpc = "idle"
    /\ refTime = ZeroTime
    /\ cinder = {}
    /\ managedSnapshots = <<>>
    /\ idx = 0
    /\ deleteCalls = {}
    /\ deleteFailed = {}
    /\ ctxDone = FALSE
    /\ xret = ""

\* no subscription running
SubIdle ==
    /\ spc = "idle"
    /\ volMeta = <<>>
    /\ initialMeta = <<>>
    /\ patch = <<>>
    /\ subscribedVolume = <<>>
    /\ subResult = <<>>
    /\ subErr = Nil

\* no creation workflow running
OrchIdle ==
    /\ opc = "idle"
    /\ managedVolumes = <<>>
    /\ attachedLeft = {}
    /\ multiLeft = <<>>
    /\ unattachedLeft = <<>>
    /\ vols = <<>>
    /\ vi = 0
    /\ groupNo = 0
    /\ running = {}
    /\ started = {}
    /\ failed = {}
    /\ successCount = 0
    /\ errorCount = 0
    /\ octxDone = FALSE
    /\ oret = ""

\* no volume being processed
PvIdle ==
    /\ kpc = "idle"
    /\ ki = 0
    /\ volMetadata = <<>>
    /\ wallClock = ZeroTime
    /\ covered = {}
    /\ evalResult = EmptyResult
    /\ callLog = <<>>
    /\ inflight = {}
    /\ execErrors = <<>>

\* no listing running
LstIdle ==
    /\ lpc = "idle"
    /\ listFn = ""
    /\ listArgs = <<>>
    /\ volumePages = <<>>
    /\ snapshotStore = <<>>
    /\ collected = <<>>
    /\ pageNo = 0
    /\ partial = FALSE
    /\ listResult = <<>>
    /\ listErr = <<>>

ExtIdle ==
    /\ CodecIdle
    /\ ExpiryIdle
    /\ SubIdle
    /\ OrchIdle
    /\ PvIdle
    /\ LstIdle

\* no policy being evaluated
EvalIdle ==
    /\ policy = NewPolicy("daily", FALSE, 0, "", <<>>, "", 0, 0)
    /\ ppc = "idle"
    /\ now = ZeroTime
    /\ lastSnap = NoSnapshot
    /\ result = EmptyResult

\* every part but codec is idle
CodecFrameIdle ==
    /\ EvalIdle
    /\ RetryIdle
    /\ WorkflowIdle
    /\ ExpiryIdle
    /\ SubIdle
    /\ OrchIdle
    /\ PvIdle
    /\ LstIdle

\* every part but expiry is idle
ExpiryFrameIdle ==
    /\ EvalIdle
    /\ RetryIdle
    /\ WorkflowIdle
    /\ CodecIdle
    /\ SubIdle
    /\ OrchIdle
    /\ PvIdle
    /\ LstIdle

\* every part but sub is idle
SubFrameIdle ==
    /\ EvalIdle
    /\ RetryIdle
    /\ WorkflowIdle
    /\ CodecIdle
    /\ ExpiryIdle
    /\ OrchIdle
    /\ PvIdle
    /\ LstIdle

\* every part but orch is idle
OrchFrameIdle ==
    /\ EvalIdle
    /\ RetryIdle
    /\ WorkflowIdle
    /\ CodecIdle
    /\ ExpiryIdle
    /\ SubIdle
    /\ PvIdle
    /\ LstIdle

\* every part but pv is idle
PvFrameIdle ==
    /\ EvalIdle
    /\ RetryIdle
    /\ WorkflowIdle
    /\ CodecIdle
    /\ ExpiryIdle
    /\ SubIdle
    /\ OrchIdle
    /\ LstIdle

\* every part but lst is idle
LstFrameIdle ==
    /\ EvalIdle
    /\ RetryIdle
    /\ WorkflowIdle
    /\ CodecIdle
    /\ ExpiryIdle
    /\ SubIdle
    /\ OrchIdle
    /\ PvIdle

\* ExecuteAction returns
Return(o, e) ==
    /\ rpc' = "returned"
    /\ outcome' = o
    /\ retErr' = e

\* line 51: derive the child context, enter the loop with attempt = 0
ExecuteActionEnter ==
    /\ rpc = "entry"
    /\ deadline' = WithTimeout(parentCtx, clock, rcfg.OperationTimeout).deadline
    /\ attempt' = 0
    /\ rpc' = "precheck"
    /\ UNCHANGED <<rcfg, parentCtx, startedAt, clock, attemptAt, opCalls, opFails,
                   sleeps, lastSleep, lastErr, retErr, outcome>>
    /\ UNCHANGED <<evalVars, workflowVars, extVars>>

\* lines 56-60: the loop condition and the check of the context before an attempt
PreCheck ==
    /\ rpc = "precheck"
    /\ IF attempt > rcfg.MaxRetries
       THEN Return("exhausted", Wrap("failed after retries", rcfg.MaxRetries, lastErr))
       ELSE IF ContextDone(clock, deadline)
            THEN Return("timeout", Wrap("timed out before attempt", attempt + 1, DeadlineExceeded))
            ELSE /\ rpc' = "call"
                 /\ UNCHANGED <<outcome, retErr>>
    /\ UNCHANGED <<rcfg, parentCtx, startedAt, clock, deadline, attempt, attemptAt,
                   opCalls, opFails, sleeps, lastSleep, lastErr>>
    /\ UNCHANGED <<evalVars, workflowVars, extVars>>

\* lines 63-76 and 105: the operation returned err at instant t
AfterOperation(err, t) ==
    /\ attemptAt' = clock
    /\ clock' = t
    /\ lastErr' = err
    /\ opCalls' = opCalls + 1
    /\ opFails' = IF err = Nil THEN opFails ELSE opFails + 1
    /\ IF err = Nil THEN Return("success", Nil)
       ELSE IF ~isRetryable(err) THEN Return("fatal", err)
       ELSE IF IsLastAttempt(attempt, rcfg)
            THEN Return("exhausted", Wrap("failed after retries", rcfg.MaxRetries, err))
            ELSE /\ rpc' = "backoff"
                 /\ UNCHANGED <<outcome, retErr>>
    /\ UNCHANGED <<rcfg, parentCtx, startedAt, deadline, attempt, sleeps, lastSleep>>

\* an operation that honours its context: one that would run past the
\* deadline returns at the deadline with the context's error
OperationReturns(err, d) ==
    IF clock + d > deadline
    THEN AfterOperation(Wrap("request", 0, DeadlineExceeded), deadline)
    ELSE AfterOperation(err, clock + d)

\* lines 97-102: select between time.After(sleepDuration) and ctx.Done(); when
\* both are ready at the same instant either case may be taken
Sleep(sleepDuration, doneAt) ==
    /\ sleeps' = sleeps + 1
    /\ lastSleep' = sleepDuration
    /\ \/ /\ clock + sleepDuration <= doneAt
          /\ clock' = clock + sleepDuration
          /\ attempt' = attempt + 1
          /\ rpc' = "precheck"
          /\ UNCHANGED <<outcome, retErr>>
       \/ /\ doneAt <= clock + sleepDuration
          /\ clock' = doneAt
          /\ Return("cancelled", Wrap("context cancelled during backoff", 0, DeadlineExceeded))
          /\ UNCHANGED attempt

\* lines 86-102: backoff, jitter, cap and wait
Backoff ==
    /\ rpc = "backoff"
    /\ IF JitterBound(rcfg, attempt) <= 0
       THEN /\ Return("panic", Nil)
            /\ UNCHANGED <<clock, attempt, sleeps, lastSleep>>
       ELSE \E jitter \in 0 .. (JitterBound(rcfg, attempt) - 1) :
                Sleep(Min2(BackoffOf(rcfg, attempt) + jitter, rcfg.MaxDelay),
                      Max2(deadline, clock))
    /\ UNCHANGED <<rcfg, parentCtx, startedAt, deadline, attemptAt, opCalls, opFails, lastErr>>
    /\ UNCHANGED <<evalVars, workflowVars, extVars>>

(***************************************************************************)
(* Policy evaluation as a state machine: a policy as parsed from the       *)
(* volume's tags is normalised, then evaluated at an instant against the   *)
(* most recent snapshot (processVolume, steps A to C).                     *)
(***************************************************************************)
MaxRetention == 3

RetentionInputs == {-1, 0, 1, MaxRetention}

ZoneInputs == {"", "Asia/Kolkata", "Europe/Paris", "Mars/Olympus"}

StartTimeInputs ==
    { <<>>,
      <<"1", "4", ":", "0", "0">>,
      <<"0", "2", ":", "3", "0", ":", "0", "0">>,
      <<"2", "3", ":", "4", "5">>,
      <<"2", "5", ":", "0", "0">> }

DayOfWeekInputs == {"", "Mon", "6", "funday", "FRIDAY"}

DayOfMonthInputs == {0, 15, 31, 32}

IntervalInputs == {-6, 0, 5, 6, 8, 12, 24}

RawPolicies ==
    {NewPolicy("express", en, r, tz, <<>>, "", 0, iv) :
        en \in BOOLEAN, r \in RetentionInputs, tz \in ZoneInputs, iv \in IntervalInputs}
    \cup
    {NewPolicy("daily", en, r, tz, st, "", 0, 0) :
        en \in BOOLEAN, r \in RetentionInputs, tz \in ZoneInputs, st \in StartTimeInputs}
    \cup
    {NewPolicy("weekly", en, r, tz, st, dw, 0, 0) :
        en \in BOOLEAN, r \in RetentionInputs, tz \in ZoneInputs, st \in StartTimeInputs,
        dw \in DayOfWeekInputs}
    \cup
    {NewPolicy("monthly", en, r, tz, st, "", dm, 0) :
        en \in BOOLEAN, r \in RetentionInputs, tz \in ZoneInputs, st \in StartTimeInputs,
        dm \in DayOfMonthInputs}

\* evaluation instants: UTC clock readings on days around a month end with a
\* clamp, both daylight-saving transitions of 2025, a leap day and a year end
NowDays ==
    { <<2025, 12, 21>>, <<2025, 2, 28>>, <<2025, 3, 29>>, <<2025, 3, 30>>,
      <<2025, 10, 25>>, <<2025, 10, 26>>, <<2024, 2, 29>>, <<2025, 1, 1>> }

NowClocks ==
    { <<0, 0>>, <<0, 30>>, <<8, 30>>, <<11, 0>>, <<12, 0>>, <<13, 0>>, <<14, 0>>,
      <<18, 30>>, <<22, 30>>, <<23, 0>> }

NowInputs == {CivilMinutes(d[1], d[2], d[3], c[1], c[2]) : d \in NowDays, c \in NowClocks}

\* age of the most recent snapshot at the evaluation instant, in minutes
SnapAges == {5, 60, 25 * 60, 8 * 24 * 60, 32 * 24 * 60}

LastSnapInputs(t) == {NoSnapshot} \cup {[ID |-> "snap-prev", CreatedAt |-> t - a] : a \in SnapAges}

InitEval ==
    /\ policy \in RawPolicies
    /\ ppc = "raw"
    /\ now = ZeroTime
    /\ lastSnap = NoSnapshot
    /\ result = EmptyResult
    /\ RetryIdle
    /\ WorkflowIdle
    /\ ExtIdle

\* p.Normalize(): the struct is rewritten in place; on an error the policy is
\* skipped and never evaluated
NormalizeDone(n) ==
    /\ policy' = n.p
    /\ ppc' = IF n.ok THEN "normalized" ELSE "invalid"
    /\ UNCHANGED <<now, lastSnap, result>>
    /\ UNCHANGED <<retryVars, workflowVars, extVars>>

NormalizeStep(kind) ==
    /\ ppc = "raw"
    /\ policy.kind = kind
    /\ NormalizeDone(Normalize(policy))

NormalizeExpressStep == NormalizeStep("express")
NormalizeDailyStep == NormalizeStep("daily")
NormalizeWeeklyStep == NormalizeStep("weekly")
NormalizeMonthlyStep == NormalizeStep("monthly")

\* p.Evaluate(now, lastSnapshotInfo)
EvaluateStep(kind) ==
    /\ ppc = "normalized"
    /\ policy.kind = kind
    /\ \E t \in NowInputs : \E ls \in LastSnapInputs(t) :
         /\ now' = t
         /\ lastSnap' = ls
         /\ result' = Evaluate(policy, t, ls)
    /\ ppc' = "evaluated"
    /\ UNCHANGED policy
    /\ UNCHANGED <<retryVars, workflowVars, extVars>>

EvaluateExpressStep == EvaluateStep("express")
EvaluateDailyStep == EvaluateStep("daily")
EvaluateWeeklyStep == EvaluateStep("weekly")
EvaluateMonthlyStep == EvaluateStep("monthly")

NextEval ==
    \/ NormalizeExpressStep
    \/ NormalizeDailyStep
    \/ NormalizeWeeklyStep
    \/ NormalizeMonthlyStep
    \/ EvaluateExpressStep
    \/ EvaluateDailyStep
    \/ EvaluateWeeklyStep
    \/ EvaluateMonthlyStep

SpecEval == InitEval /\ [][NextEval]_vars
(***************************************************************************)
(* Properties of the policy evaluator, checked under SpecEval.             *)
(***************************************************************************)
Evaluated == ppc = "evaluated"

HasLastSnap == ~IsZero(lastSnap.CreatedAt)

\* the half-open interval test, stated on the returned window
InReturnedWindow(t) == result.Window.StartTime <= t /\ t < result.Window.EndTime

\* C1: whenever the window Evaluate computed contains the last snapshot's
\* creation time (S <= createdAt < E), Evaluate answered shouldSnapshot = false,
\* for every policy kind and every evaluation instant.
C1_IdempotentInWindow ==
    (Evaluated /\ HasLastSnap /\ InReturnedWindow(lastSnap.CreatedAt)) => ~result.ShouldSnapshot

\* a policy whose window holds both the evaluation instant and the last
\* snapshot, created exactly at the window start, and which is skipped
C1_Witness ==
    /\ Evaluated /\ policy.Enabled /\ HasLastSnap
    /\ InReturnedWindow(now)
    /\ lastSnap.CreatedAt = result.Window.StartTime
    /\ ~result.ShouldSnapshot

\* C4: Evaluate answers shouldSnapshot = true only when the evaluation instant
\* lies in the returned window and the last snapshot is absent or was created
\* outside that window, for every policy kind.
C4_TakeOnlyInsideAndUncovered ==
    (Evaluated /\ result.ShouldSnapshot) =>
        /\ InReturnedWindow(now)
        /\ (~HasLastSnap \/ ~InReturnedWindow(lastSnap.CreatedAt))

\* a take decided with an older snapshot on record
C4_Witness ==
    /\ Evaluated /\ result.ShouldSnapshot /\ HasLastSnap
    /\ lastSnap.CreatedAt < result.Window.StartTime
    /\ policy.kind = "weekly"

\* C5: for an enabled, normalised policy, when the evaluation instant lies in
\* the active window and the last snapshot is missing or older than the window
\* start, Evaluate answers shouldSnapshot = true; this includes the instant
\* that equals the window start.
C5_CatchUp ==
    (/\ Evaluated /\ policy.Enabled
     /\ InReturnedWindow(now)
     /\ (~HasLastSnap \/ lastSnap.CreatedAt < result.Window.StartTime))
        => result.ShouldSnapshot

\* a take at the exact start instant of the window, after an older snapshot
C5_Witness ==
    /\ Evaluated /\ policy.Enabled /\ HasLastSnap
    /\ now = result.Window.StartTime
    /\ lastSnap.CreatedAt < result.Window.StartTime
    /\ result.ShouldSnapshot

\* the emitted expiry date minus (window start + retentionDays x 24h), in minutes
ExpiryDrift ==
    result.Metadata.ExpiryDate
      - (result.Window.StartTime + result.Metadata.RetentionDays * MinutesPerDay)

\* day number of the local calendar date of instant t in the policy's zone
LocalDayNumber(t) == (t + ZoneOffset(policy.Loc, t)) \div MinutesPerDay

MaxRetriesBound == 3

MaxRetriesInputs == {0, 1, MaxRetriesBound}

BaseDelayInputs == {1, 2, 4}

MaxDelayInputs == {3, 10}

OperationTimeoutInputs == {8, 30}

RetryConfigs ==
    [MaxRetries : MaxRetriesInputs, BaseDelay : BaseDelayInputs,
     MaxDelay : MaxDelayInputs, OperationTimeout : OperationTimeoutInputs]

StartInputs == {0, 3}

ParentContexts == {NoDeadlineCtx, DeadlineCtx(2), DeadlineCtx(12)}

StatusInputs == {400, 404, 408, 409, 429, 500, 502, 503, 504}

OperationErrors ==
    {ResponseCodeErr(c) : c \in StatusInputs}
      \cup {Wrap("failed waiting", 0, ResponseCodeErr(c)) : c \in {404, 503}}
      \cup {NetErr, Wrap("failed waiting", 0, NetErr)}

OperationOutcomes == {Nil} \cup OperationErrors

OperationDurations == {0, 1, 5}

InitRetry ==
    /\ policy = NewPolicy("daily", FALSE, 0, "", <<>>, "", 0, 0)
    /\ ppc = "raw"
    /\ now = ZeroTime
    /\ lastSnap = NoSnapshot
    /\ result = EmptyResult
    /\ rcfg \in RetryConfigs
    /\ parentCtx \in ParentContexts
    /\ rpc = "entry"
    /\ startedAt \in StartInputs
    /\ clock = startedAt
    /\ deadline = 0
    /\ attempt = 0
    /\ attemptAt = 0
    /\ opCalls = 0
    /\ opFails = 0
    /\ sleeps = 0
    /\ lastSleep = 0
    /\ lastErr = Nil
    /\ retErr = Nil
    /\ outcome = ""
    /\ WorkflowIdle
    /\ ExtIdle

\* line 63: operation(ctx) runs for d ticks and returns nil or an error
CallOperation ==
    /\ rpc = "call"
    /\ wpc = "idle"
    /\ \E d \in OperationDurations : \E e \in OperationOutcomes : OperationReturns(e, d)
    /\ UNCHANGED <<evalVars, workflowVars, extVars>>

NextRetry ==
    \/ ExecuteActionEnter
    \/ PreCheck
    \/ CallOperation
    \/ Backoff

SpecRetry == InitRetry /\ [][NextRetry]_vars
(***************************************************************************)
(* Properties of the retry executor, checked under SpecRetry.              *)
(***************************************************************************)
Returned == rpc = "returned"

\* the earlier of the caller's deadline and entry + OperationTimeout
EarliestDeadline ==
    IF parentCtx.hasDeadline
    THEN Min2(parentCtx.deadline, startedAt + rcfg.OperationTimeout)
    ELSE startedAt + rcfg.OperationTimeout

\* C6: the executor is bounded by operationTimeout whatever maxRetries is: the
\* child deadline is min(caller deadline, entry + operationTimeout); time never
\* advances inside the executor past that deadline, so it has returned by
\* entry + operationTimeout; no call of the operation begins at or after the
\* deadline; and a backoff wait that reaches the deadline ends there with the
\* cancelled-during-backoff outcome.
C6_BoundedByDeadline ==
    (rpc \notin {"idle", "entry"}) =>
        /\ deadline = EarliestDeadline
        /\ clock <= Max2(deadline, startedAt)
        /\ clock <= startedAt + rcfg.OperationTimeout
        /\ (opCalls > 0 => attemptAt < deadline)
        /\ (outcome = "cancelled" => clock = deadline /\ opCalls <= rcfg.MaxRetries)
        /\ (outcome = "timeout" => clock >= deadline)

\* a backoff wait cut short by the deadline with retries still left
C6_Witness ==
    /\ Returned /\ outcome = "cancelled"
    /\ rcfg.MaxRetries = MaxRetriesBound
    /\ opCalls = 1
    /\ clock = startedAt + rcfg.OperationTimeout

\* the response code carried by an error chain, found without errors.As
HasResponseCode(err) == \E i \in 1 .. Len(err) : err[i].type = "ErrUnexpectedResponseCode"

FirstResponseCode(err) ==
    err[CHOOSE i \in 1 .. Len(err) :
            /\ err[i].type = "ErrUnexpectedResponseCode"
            /\ \A j \in 1 .. (i - 1) : err[j].type # "ErrUnexpectedResponseCode"].code

\* the classification as the specification words it
StatedRetryable(err) ==
    \/ ~HasResponseCode(err)
    \/ FirstResponseCode(err) \in {408, 429, 500, 503, 504}

\* C7: once the operation has returned an error carrying a non-retryable HTTP
\* status code, the executor has returned that very error, no backoff wait
\* followed that call, and when it was the first call the operation ran
\* exactly once with no wait at all.
C7_FatalFailsFast ==
    (opCalls > 0 /\ lastErr # Nil /\ ~StatedRetryable(lastErr)) =>
        /\ Returned
        /\ outcome = "fatal"
        /\ retErr = lastErr
        /\ sleeps = opCalls - 1
        /\ (opFails = 1 => opCalls = 1 /\ sleeps = 0)

\* a first call answered with a wrapped 404 under a configuration that allows retries
C7_Witness ==
    /\ Returned /\ outcome = "fatal"
    /\ rcfg.MaxRetries = MaxRetriesBound
    /\ opCalls = 1 /\ sleeps = 0
    /\ Len(lastErr) = 2 /\ FirstResponseCode(lastErr) = 404
    /\ retErr = lastErr

C9_WitnessExhausted ==
    /\ Returned /\ outcome = "exhausted"
    /\ rcfg.MaxRetries = MaxRetriesBound
    /\ opCalls = MaxRetriesBound + 1 /\ sleeps = MaxRetriesBound
    /\ Head(retErr).text = "failed after retries"
    /\ Tail(retErr) = ResponseCodeErr(503)
(***************************************************************************)
(* The creation workflow for one volume: one policy iteration of           *)
(* processVolume per run, with CreateManagedSnapshot running its           *)
(* createOperation under ExecuteAction.  Workflow time is in minutes, the  *)
(* executor's clock in seconds from its entry.                             *)
(***************************************************************************)
MaxRuns == 2

\* the RetryConfig the workflow gives its client (seconds)
ClientRetryConfig == [MaxRetries |-> 3, BaseDelay |-> 2, MaxDelay |-> 10, OperationTimeout |-> 30]

VolumePolicies ==
    {NewPolicy(PolicyKinds[i], TRUE, 0, "", <<>>, "", 0, 0) : i \in 1 .. Len(PolicyKinds)}
      \cup {NewPolicy("daily", FALSE, 0, "", <<>>, "", 0, 0),
            NewPolicy("weekly", TRUE, 0, "Mars/Olympus", <<>>, "", 0, 0)}

WorkflowStart == CivilMinutes(2025, 12, 21, 13, 0)

\* minutes that pass before time.Now() is read
TimePasses == {1, 90, 26 * 60}

CreateErrors == {ResponseCodeErr(503), ResponseCodeErr(400)}

WaitErrors == {ResponseCodeErr(503), ResponseCodeErr(404)}

\* seconds a create request or a wait for "available" takes; the last one
\* outlasts the operation timeout
CallDurations == {1, 40}

SnapID(n) == "snap-" \o ToString(n)

InitCreate ==
    /\ volume \in VolumePolicies
    /\ policy = volume
    /\ ppc = "raw"
    /\ now = WorkflowStart
    /\ lastSnap = NoSnapshot
    /\ result = EmptyResult
    /\ RetryIdle
    /\ ExtIdle
    /\ wpc = "idle"
    /\ runs = 0
    /\ backend = {}
    /\ createdSnapshot = EmptySnapshot
    /\ createdSnap = EmptySnapshot
    /\ createErr = Nil
    /\ deleteIssued = {}

\* processVolume A: ParseFromMetadata, IsEnabled, Normalize
LoadDone(n) ==
    /\ policy' = n.p
    /\ ppc' = IF n.ok THEN "normalized" ELSE "invalid"
    /\ wpc' = IF n.ok THEN "list" ELSE "idle"

LoadPolicy ==
    /\ wpc = "idle"
    /\ runs < MaxRuns
    /\ runs' = runs + 1
    /\ IF volume.Enabled
       THEN LoadDone(Normalize(volume))
       ELSE /\ policy' = volume
            /\ ppc' = "raw"
            /\ wpc' = "idle"
    /\ lastSnap' = NoSnapshot
    /\ result' = EmptyResult
    /\ UNCHANGED <<now, volume, backend, createdSnapshot, createdSnap, createErr, deleteIssued>>
    /\ UNCHANGED <<retryVars, extVars>>

\* ListManagedVolumeSnapshots(ctx, vol.ID, policyType, true): the snapshots
\* with status "available" and this policy type, newest first, first one only
ListedSnapshots(kind) == {s \in backend : s.Status = "available" /\ s.PolicyType = kind}

IsNewest(s, snaps) == \A o \in snaps : o.CreatedAt <= s.CreatedAt

\* processVolume B: fetch the last snapshot, or skip the policy on an error
FetchLastSnapshot ==
    /\ wpc = "list"
    /\ \/ /\ ListedSnapshots(policy.kind) = {}
          /\ lastSnap' = NoSnapshot
          /\ wpc' = "evaluate"
       \/ /\ \E s \in ListedSnapshots(policy.kind) :
                /\ IsNewest(s, ListedSnapshots(policy.kind))
                /\ lastSnap' = [ID |-> s.ID, CreatedAt |-> s.CreatedAt]
          /\ wpc' = "evaluate"
       \/ /\ wpc' = "idle"
          /\ UNCHANGED lastSnap
    /\ UNCHANGED <<policy, ppc, now, result>>
    /\ UNCHANGED <<volume, runs, backend, createdSnapshot, createdSnap, createErr, deleteIssued>>
    /\ UNCHANGED <<retryVars, extVars>>

EvaluateDone(r, t) ==
    /\ now' = t
    /\ result' = r
    /\ ppc' = "evaluated"
    /\ wpc' = IF r.ShouldSnapshot THEN "create" ELSE "idle"

\* processVolume C: p.Evaluate(time.Now(), lastSnapshotInfo)
EvaluateAndDecide ==
    /\ wpc = "evaluate"
    /\ \E gap \in TimePasses : EvaluateDone(Evaluate(policy, now + gap, lastSnap), now + gap)
    /\ UNCHANGED <<policy, lastSnap>>
    /\ UNCHANGED <<volume, runs, backend, createdSnapshot, createdSnap, createErr, deleteIssued>>
    /\ UNCHANGED <<retryVars, extVars>>

\* processVolume D calls CreateManagedSnapshot, which hands createOperation
\* to executeWithRetry
CreateManagedSnapshotCall ==
    /\ wpc = "create"
    /\ wpc' = "creating"
    /\ createdSnapshot' = EmptySnapshot
    /\ rcfg' = ClientRetryConfig
    /\ parentCtx' = NoDeadlineCtx
    /\ rpc' = "entry"
    /\ startedAt' = 0
    /\ clock' = 0
    /\ deadline' = 0
    /\ attempt' = 0
    /\ attemptAt' = 0
    /\ opCalls' = 0
    /\ opFails' = 0
    /\ sleeps' = 0
    /\ lastSleep' = 0
    /\ lastErr' = Nil
    /\ retErr' = Nil
    /\ outcome' = ""
    /\ UNCHANGED <<evalVars, extVars>>
    /\ UNCHANGED <<volume, runs, backend, createdSnap, createErr, deleteIssued>>

\* the snapshot the service creates for a create request
NewSnapshot(status) ==
    [ID |-> SnapID(Cardinality(backend) + 1), PolicyType |-> policy.kind, CreatedAt |-> now,
     Status |-> status, Name |-> result.Window.StartTime]

\* snapshots.Create was accepted: createdSnapshot = *snap, then WaitForStatus
CreateAccepted ==
    /\ createdSnapshot' = NewSnapshot("creating")
    /\ \/ /\ backend' = backend \cup {NewSnapshot("available")}
          /\ OperationReturns(Nil, 1)
       \/ /\ backend' = backend \cup {NewSnapshot("creating")}
          /\ \E e \in WaitErrors : \E d \in CallDurations :
                OperationReturns(Wrap("failed waiting for snapshot to become available", 0, e), d)

\* snapshots.Create was refused
CreateRefused ==
    /\ \E e \in CreateErrors : \E d \in CallDurations : OperationReturns(e, d)
    /\ UNCHANGED <<backend, createdSnapshot>>

\* one call of createOperation by the executor
createOperation ==
    /\ rpc = "call"
    /\ wpc = "creating"
    /\ (CreateAccepted \/ CreateRefused)
    /\ UNCHANGED <<evalVars, extVars>>
    /\ UNCHANGED <<volume, wpc, runs, createdSnap, createErr, deleteIssued>>

\* CreateManagedSnapshot returns: the zero snapshot with the error, or the
\* created snapshot
CreateManagedSnapshotReturn ==
    /\ wpc = "creating"
    /\ rpc = "returned"
    /\ outcome # "panic"
    /\ createErr' = retErr
    /\ createdSnap' = IF retErr # Nil THEN EmptySnapshot ELSE createdSnapshot
    /\ wpc' = "created"
    /\ RetryReset
    /\ UNCHANGED <<evalVars, extVars>>
    /\ UNCHANGED <<volume, runs, backend, createdSnapshot, deleteIssued>>

\* DeleteSnapshot(ctx, id): a force delete the service accepts or refuses
DeleteSnapshot(id, accepted) ==
    /\ deleteIssued' = deleteIssued \cup {id}
    /\ backend' = IF accepted
                  THEN {IF s.ID = id THEN [s EXCEPT !.Status = "deleting"] ELSE s : s \in backend}
                  ELSE backend

\* processVolume D, after the create call: the success path, or the failure
\* path with the cleanup of an orphaned snapshot
HandleCreateResult ==
    /\ wpc = "created"
    /\ IF createErr # Nil /\ createdSnap.ID # ""
       THEN \E accepted \in BOOLEAN : DeleteSnapshot(createdSnap.ID, accepted)
       ELSE UNCHANGED <<backend, deleteIssued>>
    /\ wpc' = "idle"
    /\ UNCHANGED evalVars
    /\ UNCHANGED <<retryVars, extVars>>
    /\ UNCHANGED <<volume, runs, createdSnapshot, createdSnap, createErr>>

\* the service finishes a snapshot that was still being created; only the
\* listing reads a snapshot's status, so the step is taken between iterations
BackendSettles ==
    /\ wpc = "idle"
    /\ \E s \in backend :
         /\ s.Status = "creating"
         /\ backend' = (backend \ {s}) \cup {[s EXCEPT !.Status = "available"]}
    /\ UNCHANGED evalVars
    /\ UNCHANGED <<retryVars, extVars>>
    /\ UNCHANGED <<volume, wpc, runs, createdSnapshot, createdSnap, createErr, deleteIssued>>

NextCreate ==
    \/ LoadPolicy
    \/ FetchLastSnapshot
    \/ EvaluateAndDecide
    \/ CreateManagedSnapshotCall
    \/ ExecuteActionEnter
    \/ PreCheck
    \/ createOperation
    \/ Backoff
    \/ CreateManagedSnapshotReturn
    \/ HandleCreateResult
    \/ BackendSettles

SpecCreate == InitCreate /\ [][NextCreate]_vars

(***************************************************************************)
(* Properties of the creation workflow, checked under SpecCreate.          *)
(***************************************************************************)
\* the snapshots of the policy's type created inside the window last evaluated
SnapshotsInWindow ==
    {s \in backend : s.PolicyType = policy.kind /\ InReturnedWindow(s.CreatedAt)}

\* C2: for the volume and a policy kind, whatever creation runs, backend
\* failures and retries inside the create call have happened, the backend
\* holds at most one snapshot of that kind created within one window.
C2_AtMostOnePerWindow ==
    (ppc = "evaluated") => Cardinality(SnapshotsInWindow) <= 1

\* C3: whenever the create call has failed after the backend accepted the
\* request and assigned an id, processVolume has received that id in the
\* returned snapshot and has called DeleteSnapshot for it.
C3_OrphanCleanedUp ==
    (wpc = "idle" /\ createErr # Nil /\ createdSnapshot.ID # "") =>
        /\ createdSnap.ID = createdSnapshot.ID
        /\ createdSnapshot.ID \in deleteIssued
(***************************************************************************)
(* Metadata maps (map[string]string) and the conversions of strconv and    *)
(* time that write and read their values.  A value the code converts is a  *)
(* sequence of one-character strings; a value it passes through unchanged  *)
(* (a zone name, a weekday name, a policy type) is a string.               *)
(***************************************************************************)
MapsCopy_replace(dst, src) == src

\* maps.Copy(dst, src)
MapsCopy(dst, src) ==
    [k \in DOMAIN dst \cup DOMAIN src |-> IF k \in DOMAIN src THEN src[k] ELSE dst[k]]

EmptyText == <<>>

TrueText == <<"t", "r", "u", "e">>

FalseText == <<"f", "a", "l", "s", "e">>

\* strconv.FormatBool
FormatBool(b) == IF b THEN TrueText ELSE FalseText

ParseBoolTrue == {<<"1">>, <<"t">>, <<"T">>, <<"T", "R", "U", "E">>, TrueText, <<"T", "r", "u", "e">>}

ParseBoolFalse ==
    {<<"0">>, <<"f">>, <<"F">>, <<"F", "A", "L", "S", "E">>, FalseText, <<"F", "a", "l", "s", "e">>}

\* strconv.ParseBool
ParseBool(s) == [ok |-> s \in ParseBoolTrue \cup ParseBoolFalse, val |-> s \in ParseBoolTrue]

\* strconv.Itoa
RECURSIVE ItoaNat(_)
ItoaNat(n) ==
    IF n < 10 THEN <<DigitChars[n + 1]>>
    ELSE ItoaNat(n \div 10) \o <<DigitChars[(n % 10) + 1]>>

Itoa(n) == IF n < 0 THEN <<"-">> \o ItoaNat(-n) ELSE ItoaNat(n)

HexChars == <<"0", "1", "2", "3", "4", "5", "6", "7", "8", "9", "a", "b", "c", "d", "e", "f">>

UpperHexChars == <<"0", "1", "2", "3", "4", "5", "6", "7", "8", "9", "A", "B", "C", "D", "E", "F">>

\* the value of a digit character, 255 for any other character
CharValue(c) ==
    IF \E k \in 1..16 : HexChars[k] = c THEN (CHOOSE k \in 1..16 : HexChars[k] = c) - 1
    ELSE IF \E k \in 1..16 : UpperHexChars[k] = c
         THEN (CHOOSE k \in 1..16 : UpperHexChars[k] = c) - 1
         ELSE 255

NumError == [ok |-> FALSE, val |-> 0]

\* the digit loop of strconv.ParseUint
RECURSIVE ParseDigits(_, _, _)
ParseDigits(s, base, acc) ==
    IF s = <<>> THEN [ok |-> TRUE, val |-> acc]
    ELSE IF CharValue(s[1]) >= base THEN NumError
    ELSE ParseDigits(Tail(s), base, acc * base + CharValue(s[1]))

HasBasePrefix(s, letters) == Len(s) >= 3 /\ s[2] \in letters

\* strconv.ParseUint(s, 0, 64): the base is taken from the prefix
ParseUint(s) ==
    IF s = <<>> THEN NumError
    ELSE IF s[1] # "0" THEN ParseDigits(s, 10, 0)
    ELSE IF HasBasePrefix(s, {"b", "B"}) THEN ParseDigits(SubSeq(s, 3, Len(s)), 2, 0)
    ELSE IF HasBasePrefix(s, {"o", "O"}) THEN ParseDigits(SubSeq(s, 3, Len(s)), 8, 0)
    ELSE IF HasBasePrefix(s, {"x", "X"}) THEN ParseDigits(SubSeq(s, 3, Len(s)), 16, 0)
    ELSE ParseDigits(Tail(s), 8, 0)

Negated(r) == [ok |-> r.ok, val |-> 0 - r.val]

\* strconv.ParseInt(s, 0, 64)
ParseInt(s) ==
    IF s = <<>> THEN NumError
    ELSE IF s[1] = "+" THEN ParseUint(Tail(s))
    ELSE IF s[1] = "-" THEN Negated(ParseUint(Tail(s)))
    ELSE ParseUint(s)

Pad2(n) == <<DigitChars[(n \div 10) + 1], DigitChars[(n % 10) + 1]>>

Pad4(n) == Pad2(n \div 100) \o Pad2(n % 100)

\* the zone suffix of layout "Z07:00"
FormatZoneSuffix(offset) ==
    IF offset = 0 THEN <<"Z">>
    ELSE IF offset < 0 THEN <<"-">> \o Pad2((0 - offset) \div 60) \o <<":">> \o Pad2((0 - offset) % 60)
    ELSE <<"+">> \o Pad2(offset \div 60) \o <<":">> \o Pad2(offset % 60)

FormatFields(c, offset) ==
    Pad4(c.year) \o <<"-">> \o Pad2(c.month) \o <<"-">> \o Pad2(c.day) \o <<"T">>
        \o Pad2(c.hour) \o <<":">> \o Pad2(c.minute) \o <<":", "0", "0">>
        \o FormatZoneSuffix(offset)

\* t.In(loc).Format(time.RFC3339)
FormatRFC3339(t, zone) == FormatFields(Local(t, zone), ZoneOffset(zone, t))

TimeError == [ok |-> FALSE, val |-> ZeroTime]

AllDigits(s, positions) == \A i \in positions : IsDigit(s, i)

Num2(s, i) == 10 * DigitValue(s[i]) + DigitValue(s[i + 1])

Num4(s, i) == 100 * Num2(s, i) + Num2(s, i + 2)

\* number of days of month m of year y
DaysIn(y, m) == DaysFromCivil(y, m + 1, 1) - DaysFromCivil(y, m, 1)

\* the numeric zone of an RFC3339 text: sign at position 20, "hh:mm" after it
ParseZoneOffset(s) ==
    IF Len(s) = 20 /\ s[20] = "Z" THEN [ok |-> TRUE, val |-> 0]
    ELSE IF Len(s) = 25 /\ s[20] \in {"+", "-"} /\ s[23] = ":" /\ AllDigits(s, {21, 22, 24, 25})
              /\ Num2(s, 21) < 24 /\ Num2(s, 24) < 60
         THEN [ok |-> TRUE,
               val |-> (IF s[20] = "-" THEN -1 ELSE 1) * (60 * Num2(s, 21) + Num2(s, 24))]
         ELSE NumError

RFC3339Shape(s) ==
    /\ Len(s) \in {20, 25}
    /\ AllDigits(s, {1, 2, 3, 4, 6, 7, 9, 10, 12, 13, 15, 16, 18, 19})
    /\ s[5] = "-" /\ s[8] = "-" /\ s[11] = "T" /\ s[14] = ":" /\ s[17] = ":"

RFC3339InRange(s) ==
    /\ Num2(s, 6) \in 1..12
    /\ Num2(s, 9) >= 1 /\ Num2(s, 9) <= DaysIn(Num4(s, 1), Num2(s, 6))
    /\ Num2(s, 12) < 24 /\ Num2(s, 15) < 60 /\ Num2(s, 18) < 60

\* time.Parse(time.RFC3339, s), to the minute
ParseRFC3339(s) ==
    IF ~RFC3339Shape(s) THEN TimeError
    ELSE IF ~RFC3339InRange(s) \/ ~ParseZoneOffset(s).ok THEN TimeError
    ELSE [ok |-> TRUE,
          val |-> CivilMinutes(Num4(s, 1), Num2(s, 6), Num2(s, 9), Num2(s, 12), Num2(s, 15))
                  - ParseZoneOffset(s).val]
(***************************************************************************)
(* mapstructure decoding of one struct field from a metadata map           *)
(* (ParseSnapSentryMetadataFromSDK: TagName "json", WeaklyTypedInput, the  *)
(* RFC3339 string-to-time hook).  A key that is absent leaves the field at *)
(* its zero value.                                                         *)
(***************************************************************************)
Decoded(v) == [ok |-> TRUE, val |-> v]

DecodeFailed(zero) == [ok |-> FALSE, val |-> zero]

\* string to bool: strconv.ParseBool, and "" is false
WeakBool(text) ==
    IF ParseBool(text).ok THEN Decoded(ParseBool(text).val)
    ELSE IF text = EmptyText THEN Decoded(FALSE)
    ELSE DecodeFailed(FALSE)

\* string to int: "" is read as "0", then strconv.ParseInt(str, 0, bits)
WeakInt(text) == IF text = EmptyText THEN ParseInt(<<"0">>) ELSE ParseInt(text)

DecodeBool(metadata, key) ==
    IF key \in DOMAIN metadata THEN WeakBool(metadata[key]) ELSE Decoded(FALSE)

DecodeInt(metadata, key) ==
    IF key \in DOMAIN metadata THEN WeakInt(metadata[key]) ELSE Decoded(0)

DecodeString(metadata, key) ==
    IF key \in DOMAIN metadata THEN Decoded(metadata[key]) ELSE Decoded("")

\* a clock text field (a string field whose content the code parses later)
DecodeText(metadata, key) ==
    IF key \in DOMAIN metadata THEN Decoded(metadata[key]) ELSE Decoded(EmptyText)

\* StringToTimeHookFunc(time.RFC3339): every present value is parsed
DecodeTime(metadata, key) ==
    IF key \in DOMAIN metadata THEN ParseRFC3339(metadata[key]) ELSE Decoded(ZeroTime)

(***************************************************************************)
(* internal/policy/metadata.go: SnapshotMetadata.                          *)
(***************************************************************************)
\* the keys ToOpenstackMetadata writes
SnapshotManagedKey == "x-snapsentry-snapshot-managed"

SnapshotExpiryKey == "x-snapsentry-snapshot-expiry-date"

SnapshotExpiryUserTZKey == "x-snapsentry-snapshot-expiry-date-user-tz"

SnapshotPolicyTypeKey == "x-snapsentry-snapshot-policy-type"

SnapshotRetentionKey == "x-snapsentry-snapshot-retention-days"

\* the struct tags of SnapshotMetadata, which name the keys decoding reads
SnapshotManagedTag == "x-snapsentry-managed"

SnapshotExpiryTag == "x-snapsentry-snapshot-expiry-date"

SnapshotPolicyTypeTag == "x-snapsentry-snapshot-policy-type"

SnapshotRetentionTag == "x-snapsentry-snapshot-retention-days"

\* SnapshotMetadata.ToOpenstackMetadata; loc is the location of s.ExpiryDate
SnapshotMetadataToOpenstackMetadata(s, loc) ==
    (SnapshotManagedKey :> FormatBool(s.Managed))
    @@ (SnapshotExpiryKey :>
            IF IsZero(s.ExpiryDate) THEN EmptyText ELSE FormatRFC3339(s.ExpiryDate, "UTC"))
    @@ (SnapshotExpiryUserTZKey :>
            IF IsZero(s.ExpiryDate) THEN EmptyText ELSE FormatRFC3339(s.ExpiryDate, loc))
    @@ (SnapshotPolicyTypeKey :> s.PolicyType)
    @@ (SnapshotRetentionKey :> Itoa(s.RetentionDays))

\* ParseSnapSentryMetadataFromSDK[SnapshotMetadata]: nil and an error when any
\* field fails to decode
DecodeSnapshotFields(managed, expiry, policyType, retention) ==
    [ok |-> managed.ok /\ expiry.ok /\ policyType.ok /\ retention.ok,
     val |-> [Managed |-> managed.val, ExpiryDate |-> expiry.val,
              PolicyType |-> policyType.val, RetentionDays |-> retention.val]]

\* a decoder that keeps what it could decode and reports no error
ParseSnapshotMetadataFromSDK_lenient(metadata) ==
    [ok |-> TRUE,
     val |-> DecodeSnapshotFields(DecodeBool(metadata, SnapshotManagedTag),
                                  DecodeTime(metadata, SnapshotExpiryTag),
                                  DecodeString(metadata, SnapshotPolicyTypeTag),
                                  DecodeInt(metadata, SnapshotRetentionTag)).val]

ParseSnapshotMetadataFromSDK(metadata) ==
    DecodeSnapshotFields(DecodeBool(metadata, SnapshotManagedTag),
                         DecodeTime(metadata, SnapshotExpiryTag),
                         DecodeString(metadata, SnapshotPolicyTypeTag),
                         DecodeInt(metadata, SnapshotRetentionTag))

\* SnapshotMetadata.ParseFromMetadata on a zero struct: the struct is
\* overwritten only when decoding succeeds
SnapshotMetadataParseFromMetadata(metadata) ==
    IF ParseSnapshotMetadataFromSDK(metadata).ok
    THEN ParseSnapshotMetadataFromSDK(metadata).val
    ELSE EmptyMetadata
(***************************************************************************)
(* internal/workflow: RunProjectSnapshotExpiryWorkflow and                 *)
(* processSnapshotExpiry, with ListManagedSnapshots of the client.         *)
(***************************************************************************)
MaxSnapshots == 3

\* a snapshots.Snapshot as the service returns it
CinderSnapshot(id, status, metadata) == [ID |-> id, Status |-> status, Metadata |-> metadata]

\* the client-side filter of ListManagedSnapshots
IsManaged(snap) == SnapshotMetadataParseFromMetadata(snap.Metadata).Managed

\* snapshots.List with Status "available", filtered, in the order of the service
RECURSIVE ListManagedFrom(_, _)
ListManagedFrom(snaps, n) ==
    IF n > MaxSnapshots + 1 THEN <<>>
    ELSE LET here == {s \in snaps : s.ID = SnapID(n) /\ s.Status = "available" /\ IsManaged(s)}
         IN  (IF here = {} THEN <<>> ELSE <<CHOOSE s \in here : TRUE>>)
             \o ListManagedFrom(snaps, n + 1)

ListManagedSnapshots(snaps) == ListManagedFrom(snaps, 1)

\* now.Before(expiryDate)
Before_orEqual(t, u) == t <= u

Before(t, u) == t < u

\* processSnapshotExpiry B: the snapshot is still inside its retention period
InRetention(t, meta) == Before(t, meta.ExpiryDate)

\* processSnapshotExpiry A and B: whether DeleteSnapshot is to be called
ShouldDelete(snap, t) ==
    /\ ParseSnapshotMetadataFromSDK(snap.Metadata).ok
    /\ ~InRetention(t, ParseSnapshotMetadataFromSDK(snap.Metadata).val)

ExpiryReturn(r) ==
    /\ xpc' = "returned"
    /\ xret' = r

\* the reference time of the sweep
ExpiryNow == CivilMinutes(2025, 3, 30, 12, 0)

TaggedMetadata(managedText, expiryText) ==
    (SnapshotManagedTag :> managedText) @@ (SnapshotExpiryTag :> expiryText)
    @@ (SnapshotPolicyTypeTag :> "daily") @@ (SnapshotRetentionTag :> Itoa(1))

\* the metadata the creation workflow writes for a snapshot that expired an hour ago
WrittenMetadata ==
    SnapshotMetadataToOpenstackMetadata(
        [Managed |-> TRUE, ExpiryDate |-> ExpiryNow - 60, PolicyType |-> "daily",
         RetentionDays |-> 1], "Europe/Paris")

\* metadata found on snapshots: expired, expiring now, not yet expired (in UTC
\* and with a zone offset), without an expiry key, as written by the creation
\* workflow, not managed, with an empty expiry, and without any metadata
SnapshotMetadataInputs ==
    {TaggedMetadata(TrueText, FormatRFC3339(ExpiryNow - 60, "UTC")),
     TaggedMetadata(TrueText, FormatRFC3339(ExpiryNow, "UTC")),
     TaggedMetadata(TrueText, FormatRFC3339(ExpiryNow + 1, "UTC")),
     TaggedMetadata(<<"1">>, FormatRFC3339(ExpiryNow + 60, "Europe/Paris")),
     (SnapshotManagedTag :> TrueText),
     WrittenMetadata,
     TaggedMetadata(FalseText, FormatRFC3339(ExpiryNow - 60, "UTC")),
     TaggedMetadata(TrueText, EmptyText),
     <<>>}

SnapshotInputs(n) ==
    {CinderSnapshot(SnapID(n), "available", m) : m \in SnapshotMetadataInputs}
    \cup {CinderSnapshot(SnapID(n), "error",
                         TaggedMetadata(TrueText, FormatRFC3339(ExpiryNow - 60, "UTC")))}

InitExpiry ==
    /\ ExpiryFrameIdle
    /\ xpc = "list"
    /\ refTime = ExpiryNow
    /\ \E f \in [1..MaxSnapshots -> UNION {SnapshotInputs(n) : n \in 1..MaxSnapshots}] :
          /\ \A n \in 1..MaxSnapshots : f[n] \in SnapshotInputs(n)
          /\ cinder = {f[n] : n \in 1..MaxSnapshots}
    /\ managedSnapshots = <<>>
    /\ idx = 0
    /\ deleteCalls = {}
    /\ deleteFailed = {}
    /\ ctxDone = FALSE
    /\ xret = ""

\* 3. ListManagedSnapshots: an error ends the workflow, an empty list too
ListManagedSnapshotsCall ==
    /\ xpc = "list"
    /\ \/ /\ ExpiryReturn("error")
          /\ UNCHANGED managedSnapshots
       \/ /\ ~ctxDone
          /\ managedSnapshots' = ListManagedSnapshots(cinder)
          /\ IF Len(ListManagedSnapshots(cinder)) = 0
             THEN ExpiryReturn("nil")
             ELSE xpc' = "loop" /\ UNCHANGED xret
    /\ UNCHANGED <<refTime, cinder, idx, deleteCalls, deleteFailed, ctxDone>>
    /\ UNCHANGED expiryFrame

\* the deadline of context.WithTimeout passes
ExpiryDeadlineFires ==
    /\ xpc \in {"list", "loop"}
    /\ ~ctxDone
    /\ ctxDone' = TRUE
    /\ UNCHANGED <<xpc, refTime, cinder, managedSnapshots, idx, deleteCalls, deleteFailed,
                   xret>>
    /\ UNCHANGED expiryFrame

\* 4. the loop finds ctx.Err() != nil and returns it
ExpiryTimedOut ==
    /\ xpc = "loop"
    /\ idx < Len(managedSnapshots)
    /\ ctxDone
    /\ ExpiryReturn("deadline exceeded")
    /\ UNCHANGED <<refTime, cinder, managedSnapshots, idx, deleteCalls, deleteFailed, ctxDone>>
    /\ UNCHANGED expiryFrame

\* client.DeleteSnapshot(ctx, snap.ID): accepted, or failed and logged
DeleteExpired(snap, accepted) ==
    /\ deleteCalls' = deleteCalls \cup {snap.ID}
    /\ deleteFailed' = IF accepted THEN deleteFailed ELSE deleteFailed \cup {snap.ID}
    /\ cinder' = IF accepted THEN {s \in cinder : s.ID # snap.ID} ELSE cinder

\* an iteration that hands the error of DeleteSnapshot to the loop, which returns it
ProcessSnapshotExpiry_abortsOnError ==
    /\ xpc = "loop"
    /\ idx < Len(managedSnapshots)
    /\ ~ctxDone
    /\ IF ShouldDelete(managedSnapshots[idx + 1], refTime)
       THEN \E accepted \in BOOLEAN :
               /\ DeleteExpired(managedSnapshots[idx + 1], accepted)
               /\ IF accepted THEN UNCHANGED <<xpc, xret>> ELSE ExpiryReturn("error")
       ELSE UNCHANGED <<cinder, deleteCalls, deleteFailed, xpc, xret>>
    /\ idx' = idx + 1
    /\ UNCHANGED <<refTime, managedSnapshots, ctxDone>>
    /\ UNCHANGED expiryFrame

\* an iteration that does not look at the context before processing
ProcessSnapshotExpiry_ignoresDeadline ==
    /\ xpc = "loop"
    /\ idx < Len(managedSnapshots)
    /\ IF ShouldDelete(managedSnapshots[idx + 1], refTime)
       THEN \E accepted \in BOOLEAN : DeleteExpired(managedSnapshots[idx + 1], accepted)
       ELSE UNCHANGED <<cinder, deleteCalls, deleteFailed>>
    /\ idx' = idx + 1
    /\ UNCHANGED <<xpc, refTime, managedSnapshots, ctxDone, xret>>
    /\ UNCHANGED expiryFrame

\* 4. one iteration of the loop: processSnapshotExpiry of the next snapshot
ProcessSnapshotExpiry ==
    /\ xpc = "loop"
    /\ idx < Len(managedSnapshots)
    /\ ~ctxDone
    /\ IF ShouldDelete(managedSnapshots[idx + 1], refTime)
       THEN \E accepted \in BOOLEAN : DeleteExpired(managedSnapshots[idx + 1], accepted)
       ELSE UNCHANGED <<cinder, deleteCalls, deleteFailed>>
    /\ idx' = idx + 1
    /\ UNCHANGED <<xpc, refTime, managedSnapshots, ctxDone, xret>>
    /\ UNCHANGED expiryFrame

\* the loop is over: "Expiry workflow completed", return nil
ExpiryCompleted ==
    /\ xpc = "loop"
    /\ idx = Len(managedSnapshots)
    /\ ExpiryReturn("nil")
    /\ UNCHANGED <<refTime, cinder, managedSnapshots, idx, deleteCalls, deleteFailed, ctxDone>>
    /\ UNCHANGED expiryFrame

NextExpiry ==
    \/ ListManagedSnapshotsCall
    \/ ExpiryDeadlineFires
    \/ ExpiryTimedOut
    \/ ProcessSnapshotExpiry
    \/ ExpiryCompleted

SpecExpiry == InitExpiry /\ [][NextExpiry]_vars

(***************************************************************************)
(* Claims about the expiry workflow, checked under SpecExpiry.             *)
(***************************************************************************)
\* the snapshots the loop has processed so far
Processed == {managedSnapshots[i] : i \in 1..idx}

RecordedExpiry(snap) == ParseSnapshotMetadataFromSDK(snap.Metadata).val.ExpiryDate

\* C11: DeleteSnapshot is issued only for snapshots that were listed as
\* managed (status "available", metadata parsing to managed = true) and whose
\* recorded expiry date is not after the reference time; a processed snapshot
\* is skipped exactly when the reference time is before its expiry date, so a
\* snapshot expiring exactly now is deleted and one expiring later never is.
C11_DeleteOnlyManagedExpired ==
    /\ \A id \in deleteCalls : \E snap \in Processed :
          /\ snap.ID = id
          /\ snap.Status = "available"
          /\ ParseSnapshotMetadataFromSDK(snap.Metadata).val.Managed
          /\ RecordedExpiry(snap) <= refTime
    /\ \A snap \in Processed :
          (snap.ID \notin deleteCalls) <=> (refTime < RecordedExpiry(snap))
    /\ \A id \in deleteCalls : \A snap \in Processed :
          snap.ID = id => ~(RecordedExpiry(snap) > refTime)

\* a finished sweep that deleted a snapshot expiring exactly at the reference
\* time and skipped one expiring a minute later
C11_Witness ==
    /\ xpc = "returned" /\ xret = "nil"
    /\ \E snap \in Processed : snap.ID \in deleteCalls /\ RecordedExpiry(snap) = refTime
    /\ \E snap \in Processed : snap.ID \notin deleteCalls /\ RecordedExpiry(snap) = refTime + 1
(***************************************************************************)
(* The codecs and the monthly anchor as functions applied to one input:    *)
(* the input is chosen, then one action applies the function it is for.    *)
(***************************************************************************)
\* expiry instants a snapshot can carry: in winter, on the day daylight saving
\* begins in Europe/Paris, in summer, and the zero time
ExpiryInputs ==
    {ZeroTime, CivilMinutes(2025, 1, 15, 6, 30), CivilMinutes(2025, 3, 30, 0, 45),
     CivilMinutes(2025, 3, 30, 12, 0), CivilMinutes(2024, 7, 1, 23, 59)}

SnapshotRetentionInputs == {0, 1, 7, 30, 365}

\* the SnapshotMetadata records handed to ToOpenstackMetadata, with the
\* location their ExpiryDate carries
SnapshotMetadataRecords ==
    {[type |-> "snapshot", loc |-> z,
      value |-> [Managed |-> m, ExpiryDate |-> e, PolicyType |-> PolicyKinds[k],
                 RetentionDays |-> r]] :
        z \in KnownZones, m \in BOOLEAN, e \in ExpiryInputs, k \in 1..Len(PolicyKinds),
        r \in SnapshotRetentionInputs}

\* write the record, then read the map back and list a snapshot that carries it
SnapshotMetadataRoundTrip ==
    /\ fn = ""
    /\ arg.type = "snapshot"
    /\ fn' = "SnapshotMetadata"
    /\ ret' = [metadata |-> SnapshotMetadataToOpenstackMetadata(arg.value, arg.loc),
               parsed |-> ParseSnapshotMetadataFromSDK(
                              SnapshotMetadataToOpenstackMetadata(arg.value, arg.loc)),
               listed |-> ListManagedSnapshots(
                              {CinderSnapshot(SnapID(1), "available",
                                   SnapshotMetadataToOpenstackMetadata(arg.value, arg.loc))})]
    /\ UNCHANGED arg
    /\ UNCHANGED codecFrame
(***************************************************************************)
(* internal/policy: ToOpenstackMetadata and ParseFromMetadata of the four  *)
(* policy kinds.  Key(kind, suffix) builds "x-snapsentry-<kind>-<suffix>". *)
(***************************************************************************)
\* the management tag every policy writes on the volume
ManagedTag == "x-snapsentry-managed"

Key(kind, suffix) == "x-snapsentry-" \o kind \o "-" \o suffix

\* the keys every kind writes and reads under the same name
CommonMetadata(s) ==
    (ManagedTag :> TrueText)
    @@ (Key(s.kind, "enabled") :> FormatBool(s.Enabled))
    @@ (Key(s.kind, "retention-days") :> Itoa(s.RetentionDays))
    @@ (Key(s.kind, "retention-type") :> s.RetentionType)
    @@ (Key(s.kind, "timezone") :> s.TimeZone)

\* SnapshotPolicyDaily.ToOpenstackMetadata
DailyToOpenstackMetadata(s) ==
    CommonMetadata(s) @@ (Key("daily", "start-time") :> s.StartTime)

\* SnapshotPolicyWeekly.ToOpenstackMetadata
WeeklyToOpenstackMetadata(s) ==
    CommonMetadata(s) @@ (Key("weekly", "start-time") :> s.StartTime)
    @@ (Key("weekly", "start-day-of-week") :> s.DayOfWeek)

\* SnapshotPolicyMonthly.ToOpenstackMetadata
MonthlyToOpenstackMetadata(s) ==
    CommonMetadata(s) @@ (Key("monthly", "start-time") :> s.StartTime)
    @@ (Key("monthly", "day-of-month") :> Itoa(s.DayOfMonth))

\* SnapshotPolicyExpress.ToOpenstackMetadata
ExpressToOpenstackMetadata(s) ==
    CommonMetadata(s) @@ (Key("express", "interval-hours") :> Itoa(s.IntervalHours))

ToOpenstackMetadata(s) ==
    CASE s.kind = "express" -> ExpressToOpenstackMetadata(s)
      [] s.kind = "daily"   -> DailyToOpenstackMetadata(s)
      [] s.kind = "weekly"  -> WeeklyToOpenstackMetadata(s)
      [] s.kind = "monthly" -> MonthlyToOpenstackMetadata(s)

\* the struct tags of the kind-specific fields
StartTimeTag(kind) == Key(kind, "start-time")

DayOfWeekTag == Key("weekly", "start-day-of-week")

DayOfMonthTag == Key("monthly", "start-day-of-month")

IntervalHoursTag == Key("express", "interval-hours")

\* the struct a decode starts from: var result T
ZeroPolicy(kind) == NewPolicy(kind, FALSE, 0, "", EmptyText, "", 0, 0)

\* the fields all four structs have
DecodeCommon(kind, enabled, retention, retentionType, tz) ==
    [ok |-> enabled.ok /\ retention.ok /\ retentionType.ok /\ tz.ok,
     p  |-> [ZeroPolicy(kind) EXCEPT !.Enabled = enabled.val, !.RetentionDays = retention.val,
                                     !.RetentionType = retentionType.val, !.TimeZone = tz.val]]

DecodeCommonFields(kind, metadata) ==
    DecodeCommon(kind, DecodeBool(metadata, Key(kind, "enabled")),
                 DecodeInt(metadata, Key(kind, "retention-days")),
                 DecodeString(metadata, Key(kind, "retention-type")),
                 DecodeString(metadata, Key(kind, "timezone")))

WithStartTime(c, st) == [ok |-> c.ok /\ st.ok, p |-> [c.p EXCEPT !.StartTime = st.val]]

WithDayOfWeek(c, dw) == [ok |-> c.ok /\ dw.ok, p |-> [c.p EXCEPT !.DayOfWeek = dw.val]]

WithDayOfMonth(c, dm) == [ok |-> c.ok /\ dm.ok, p |-> [c.p EXCEPT !.DayOfMonth = dm.val]]

WithIntervalHours(c, iv) == [ok |-> c.ok /\ iv.ok, p |-> [c.p EXCEPT !.IntervalHours = iv.val]]

\* ParseSnapSentryMetadataFromSDK[T] for the four policy structs
ParsePolicyFromSDK(kind, metadata) ==
    CASE kind = "express" ->
            WithIntervalHours(DecodeCommonFields(kind, metadata),
                              DecodeInt(metadata, IntervalHoursTag))
      [] kind = "daily" ->
            WithStartTime(DecodeCommonFields(kind, metadata),
                          DecodeText(metadata, StartTimeTag(kind)))
      [] kind = "weekly" ->
            WithDayOfWeek(WithStartTime(DecodeCommonFields(kind, metadata),
                                        DecodeText(metadata, StartTimeTag(kind))),
                          DecodeString(metadata, DayOfWeekTag))
      [] kind = "monthly" ->
            WithDayOfMonth(WithStartTime(DecodeCommonFields(kind, metadata),
                                         DecodeText(metadata, StartTimeTag(kind))),
                           DecodeInt(metadata, DayOfMonthTag))

\* a variant that keeps what was decoded when decoding failed
ParseFromMetadata_partial(s, metadata) == ParsePolicyFromSDK(s.kind, metadata).p

\* ParseFromMetadata of a policy struct s: *s = *parsed unless decoding failed
ParseFromMetadata(s, metadata) ==
    IF ParsePolicyFromSDK(s.kind, metadata).ok
    THEN ParsePolicyFromSDK(s.kind, metadata).p
    ELSE s
RetentionTypeInputs == {"time", "count"}

\* the policies subscribe builds: every raw policy, with a retention type
PolicyRecords ==
    {[type |-> "policy", value |-> [p EXCEPT !.RetentionType = rt]] :
        p \in RawPolicies, rt \in RetentionTypeInputs}

\* what the creation workflow evaluates: ParseFromMetadata into a zero struct
\* (errors ignored), then Normalize
LoadedPolicy(kind, metadata) == Normalize(ParseFromMetadata(ZeroPolicy(kind), metadata))

PolicyWritten(n) ==
    [subscribed |-> TRUE,
     normalized |-> n,
     metadata   |-> ToOpenstackMetadata(n),
     parsed     |-> ParsePolicyFromSDK(n.kind, ToOpenstackMetadata(n)),
     loaded     |-> LoadedPolicy(n.kind, ToOpenstackMetadata(n))]

\* subscribe: Normalize, then ToOpenstackMetadata; the map is then read back
\* the way processVolume reads a volume's metadata
PolicyRoundTrip ==
    /\ fn = ""
    /\ arg.type = "policy"
    /\ fn' = "Policy"
    /\ ret' = IF Normalize(arg.value).ok
              THEN PolicyWritten(Normalize(arg.value).p)
              ELSE [subscribed |-> FALSE]
    /\ UNCHANGED arg
    /\ UNCHANGED codecFrame

MonthlyYears == {2000, 2023, 2024, 2100}

MonthlyTargetDays == 1..32

MonthlyClocks == {<<0, 0>>, <<2, 30>>, <<23, 59>>}

\* the arguments of helperGetMonthlyDate; month 0 and month 13 are what
\* Evaluate passes for the month before January and the month after December
MonthlyDateInputs ==
    {[type |-> "monthly-date", year |-> y, month |-> m, targetDay |-> d,
      hour |-> c[1], min |-> c[2], loc |-> z] :
        y \in MonthlyYears, m \in 0..13, d \in MonthlyTargetDays, c \in MonthlyClocks,
        z \in KnownZones}

MonthlyDateApply ==
    /\ fn = ""
    /\ arg.type = "monthly-date"
    /\ fn' = "helperGetMonthlyDate"
    /\ ret' = helperGetMonthlyDate(arg.year, arg.month, arg.targetDay, arg.hour, arg.min,
                                   arg.loc)
    /\ UNCHANGED arg
    /\ UNCHANGED codecFrame

\* the durations the four Evaluate methods pass: 6h, 8h, 12h, 24h, 168h
WindowDurations == {6 * 60, 8 * 60, 12 * 60, 24 * 60, 7 * 24 * 60}

WindowPotentialStart == CivilMinutes(2025, 12, 21, 14, 0)

\* the arguments of helperEvaluateWindow: now up to a cycle and a minute away
\* from the potential start, on both sides and on every boundary
EvaluateWindowInputs ==
    {[type |-> "window", now |-> WindowPotentialStart + off,
      potentialStart |-> WindowPotentialStart, duration |-> d, lastSnapshot |-> ls] :
        d \in WindowDurations,
        off \in UNION {{-dd - 1, -dd, -dd + 1, -1, 0, 1, dd - 1, dd, dd + 1} :
                           dd \in WindowDurations},
        ls \in {NoSnapshot, [ID |-> "snap-prev", CreatedAt |-> WindowPotentialStart - 30]}}

EvaluateWindowApply ==
    /\ fn = ""
    /\ arg.type = "window"
    /\ fn' = "helperEvaluateWindow"
    /\ ret' = helperEvaluateWindow(arg.now, arg.potentialStart, arg.duration,
                                   arg.lastSnapshot)
    /\ UNCHANGED arg
    /\ UNCHANGED codecFrame

InitPure ==
    /\ CodecFrameIdle
    /\ fn = ""
    /\ arg \in SnapshotMetadataRecords \cup PolicyRecords \cup MonthlyDateInputs
                \cup EvaluateWindowInputs
    /\ ret = <<>>

NextPure ==
    \/ SnapshotMetadataRoundTrip
    \/ PolicyRoundTrip
    \/ MonthlyDateApply
    \/ EvaluateWindowApply

SpecPure == InitPure /\ [][NextPure]_vars

(***************************************************************************)
(* Claims about the codecs and the monthly anchor, checked under SpecPure. *)
(***************************************************************************)
\* C12: parsing the map ToOpenstackMetadata produced for a record with
\* managed = true and a recorded expiry yields managed = true, the same expiry
\* instant, policy type and retention days, and a snapshot carrying that map
\* is listed by ListManagedSnapshots.
C12_SnapshotMetadataRoundTrip ==
    (fn = "SnapshotMetadata" /\ arg.value.Managed /\ ~IsZero(arg.value.ExpiryDate)) =>
        /\ ret.parsed.ok
        /\ ret.parsed.val.Managed
        /\ ret.parsed.val.ExpiryDate = arg.value.ExpiryDate
        /\ ret.parsed.val.PolicyType = arg.value.PolicyType
        /\ ret.parsed.val.RetentionDays = arg.value.RetentionDays
        /\ Len(ret.listed) = 1

\* C13: for every policy kind, the map written for a normalised policy parses
\* back to the same enabled, retentionDays, retentionType, timeZone, startTime
\* and dayOfWeek / dayOfMonth / intervalHours, and the policy the creation
\* workflow loads from the map is the normalised policy that was written.
C13_PolicyRoundTrip ==
    (fn = "Policy" /\ ret.subscribed) =>
        /\ ret.parsed.ok
        /\ ret.parsed.p.Enabled = ret.normalized.Enabled
        /\ ret.parsed.p.RetentionDays = ret.normalized.RetentionDays
        /\ ret.parsed.p.RetentionType = ret.normalized.RetentionType
        /\ ret.parsed.p.TimeZone = ret.normalized.TimeZone
        /\ ret.parsed.p.StartTime = ret.normalized.StartTime
        /\ ret.parsed.p.DayOfWeek = ret.normalized.DayOfWeek
        /\ ret.parsed.p.DayOfMonth = ret.normalized.DayOfMonth
        /\ ret.parsed.p.IntervalHours = ret.normalized.IntervalHours
        /\ ret.loaded.ok
        /\ ret.loaded.p = ret.normalized

\* number of days of each month of a common year
MonthLengths == <<31, 28, 31, 30, 31, 30, 31, 31, 30, 31, 30, 31>>

DaysInMonth(y, m) == IF m = 2 /\ IsLeap(y) THEN 29 ELSE MonthLengths[m]

\* the calendar month the arguments name, month 0 and month 13 carried over
AnchorYear == IF arg.month = 0 THEN arg.year - 1 ELSE IF arg.month = 13 THEN arg.year + 1
              ELSE arg.year

AnchorMonth == IF arg.month = 0 THEN 12 ELSE IF arg.month = 13 THEN 1 ELSE arg.month

\* C15: the monthly anchor falls in the month asked for, on the last day of
\* that month when the target day exceeds the month's length (28, 29, 30 or
\* 31) and on the target day otherwise.
C15_MonthlyClamp ==
    fn = "helperGetMonthlyDate" =>
        /\ Local(ret, arg.loc).year = AnchorYear
        /\ Local(ret, arg.loc).month = AnchorMonth
        /\ Local(ret, arg.loc).day =
               IF arg.targetDay > DaysInMonth(AnchorYear, AnchorMonth)
               THEN DaysInMonth(AnchorYear, AnchorMonth)
               ELSE arg.targetDay

\* the 31st asked for in a leap February: the anchor is 29 February
C15_Witness ==
    /\ fn = "helperGetMonthlyDate"
    /\ arg.year = 2024 /\ arg.month = 2 /\ arg.targetDay = 31
    /\ Local(ret, arg.loc).day = 29

\* the 31st asked for in a 30-day month and in a common February
C15_WitnessThirty ==
    /\ fn = "helperGetMonthlyDate"
    /\ arg.year = 2023 /\ arg.month = 4 /\ arg.targetDay = 31
    /\ Local(ret, arg.loc).day = 30 /\ Local(ret, arg.loc).month = 4
(***************************************************************************)
(* internal/cloud/openstack/volume.go: CreateVolumeSubscription, the       *)
(* read-merge-write of a volume's metadata, run by the retry executor.     *)
(***************************************************************************)
\* the retry settings of the subscribe commands (initClient), in ticks of
\* half a second
SubscribeRetryConfig == [MaxRetries |-> 1, BaseDelay |-> 2, MaxDelay |-> 4, OperationTimeout |-> 20]

\* tags found on a volume before it is subscribed: none (a nil map), tags of
\* another owner, and an earlier daily subscription
VolumeMetadataInputs ==
    {<<>>,
     ("billing-code" :> "42"),
     ("billing-code" :> "42") @@ ("owner" :> "db-team")
         @@ (Key("daily", "enabled") :> FalseText) @@ (Key("daily", "timezone") :> "UTC"),
     ToOpenstackMetadata(Normalize(NewPolicy("weekly", TRUE, 0, "", <<>>, "Mon", 0, 0)).p)}

\* the policy tags subscribe writes
PatchInputs ==
    {ToOpenstackMetadata(Normalize(NewPolicy("daily", TRUE, 1, "Europe/Paris", <<>>, "", 0, 0)).p),
     ToOpenstackMetadata(Normalize(NewPolicy("monthly", TRUE, 0, "", <<>>, "", 15, 0)).p)}

InitSubscribe ==
    /\ SubFrameIdle
    /\ spc = "idle"
    /\ volMeta \in VolumeMetadataInputs
    /\ initialMeta = volMeta
    /\ patch \in PatchInputs
    /\ subscribedVolume = <<>>
    /\ subResult = <<>>
    /\ subErr = Nil

\* c.executeWithRetry(ctx, "CreateVolumeSubscription", subscriptionOperation)
CreateVolumeSubscriptionCall ==
    /\ spc = "idle"
    /\ rpc = "idle"
    /\ spc' = "subscribing"
    /\ rcfg' = SubscribeRetryConfig
    /\ parentCtx' = NoDeadlineCtx
    /\ rpc' = "entry"
    /\ UNCHANGED <<startedAt, clock, deadline, attempt, attemptAt, opCalls, opFails, sleeps,
                   lastSleep, lastErr, retErr, outcome>>
    /\ UNCHANGED <<volMeta, initialMeta, patch, subscribedVolume, subResult, subErr>>
    /\ UNCHANGED subCallFrame

GetErrors == {ResponseCodeErr(503), ResponseCodeErr(404)}

UpdateErrors == {ResponseCodeErr(503), ResponseCodeErr(400)}

SubscribeDurations == {1, 25}

\* 1. volumes.Get fails: nothing is written
GetRefused ==
    /\ \E e \in GetErrors : \E d \in SubscribeDurations : OperationReturns(e, d)
    /\ UNCHANGED <<volMeta, subscribedVolume>>

\* 2.-4. the current metadata is merged with the patch and sent; the service
\* stores the map it was sent and answers with the updated volume
UpdateAccepted(merged) ==
    /\ volMeta' = merged
    /\ \E d \in SubscribeDurations :
          /\ OperationReturns(Nil, d)
          /\ subscribedVolume' = IF clock + d > deadline THEN subscribedVolume ELSE merged

\* the service stores the map but the answer is an error (a gateway timeout)
UpdateAppliedUnanswered(merged) ==
    /\ volMeta' = merged
    /\ OperationReturns(ResponseCodeErr(504), 1)
    /\ UNCHANGED subscribedVolume

\* the service refuses the update
UpdateRefused ==
    /\ \E e \in UpdateErrors : OperationReturns(e, 1)
    /\ UNCHANGED <<volMeta, subscribedVolume>>

\* one call of subscriptionOperation by the executor
subscriptionOperation ==
    /\ rpc = "call"
    /\ spc = "subscribing"
    /\ \/ GetRefused
       \/ UpdateAccepted(MapsCopy(volMeta, patch))
       \/ UpdateAppliedUnanswered(MapsCopy(volMeta, patch))
       \/ UpdateRefused
    /\ UNCHANGED <<spc, initialMeta, patch, subResult, subErr>>
    /\ UNCHANGED subCallFrame

\* CreateVolumeSubscription returns volumes.Volume{} with the error, or the
\* updated volume
CreateVolumeSubscriptionReturn ==
    /\ spc = "subscribing"
    /\ rpc = "returned"
    /\ outcome # "panic"
    /\ subErr' = retErr
    /\ subResult' = IF retErr # Nil THEN <<>> ELSE subscribedVolume
    /\ spc' = "returned"
    /\ UNCHANGED <<volMeta, initialMeta, patch, subscribedVolume>>
    /\ UNCHANGED subFrame

NextSubscribe ==
    \/ CreateVolumeSubscriptionCall
    \/ ExecuteActionEnter
    \/ PreCheck
    \/ subscriptionOperation
    \/ Backoff
    \/ CreateVolumeSubscriptionReturn

SpecSubscribe == InitSubscribe /\ [][NextSubscribe]_vars

(***************************************************************************)
(* Claims about the subscription, checked under SpecSubscribe.             *)
(***************************************************************************)
\* the keys of the volume that the patch does not name
KeptKeys == DOMAIN initialMeta \ DOMAIN patch

\* C14: CreateVolumeSubscription pushes the existing metadata merged with the
\* patch.  At every moment, retries included, every key of the volume that is
\* not in the patch is still there with its value and no other key outside
\* the patch has appeared; once the call has returned without an error every
\* patch key holds the patch value, and the volume returned carries the
\* merged map.
C14_MergePreserves ==
    /\ \A k \in KeptKeys : k \in DOMAIN volMeta /\ volMeta[k] = initialMeta[k]
    /\ DOMAIN volMeta \subseteq DOMAIN initialMeta \cup DOMAIN patch
    /\ (spc = "returned" /\ subErr = Nil) =>
          /\ \A k \in DOMAIN patch : k \in DOMAIN volMeta /\ volMeta[k] = patch[k]
          /\ DOMAIN volMeta = DOMAIN initialMeta \cup DOMAIN patch
          /\ subResult = volMeta

\* a subscription that succeeded on the retry, after a first attempt whose
\* update was stored but not answered, on a volume that had tags of its own
\* and a tag the patch overwrites
C14_Witness ==
    /\ spc = "returned" /\ subErr = Nil
    /\ opCalls = 2 /\ opFails = 1
    /\ initialMeta # volMeta
    /\ KeptKeys # {}
    /\ \E k \in DOMAIN patch : k \in DOMAIN initialMeta /\ initialMeta[k] # patch[k]
    /\ "billing-code" \in DOMAIN volMeta
(***************************************************************************)
(* internal/workflow: RunProjectSnapshotWorkflow and processVolumeGroup,   *)
(* the orchestrator of the creation workflow.  A worker is the goroutine   *)
(* processVolumeGroup starts for one volume; what processVolume does       *)
(* inside it is reduced here to the error it returns.                      *)
(***************************************************************************)
MaxVolumes == 3

VolID(n) == "vol-" \o ToString(n)

\* v.Attachments as the sequence of server ids
AttachmentInputs == {<<>>, <<"vm-a">>, <<"vm-b">>, <<"vm-a", "vm-b">>}

\* GroupVolumeByVMAttachment: the three parts of VMGroupedVolumeList
Unattached(volumeList) == SelectSeq(volumeList, LAMBDA v : Len(v.Attachments) = 0)

\* a variant that files only volumes with three or more attachments
MultiAttached_threeOrMore(volumeList) ==
    SelectSeq(volumeList, LAMBDA v : Len(v.Attachments) > 2)

MultiAttached(volumeList) == SelectSeq(volumeList, LAMBDA v : Len(v.Attachments) > 1)

AttachedTo(volumeList, serverID) ==
    SelectSeq(volumeList, LAMBDA v : Len(v.Attachments) = 1 /\ v.Attachments[1] = serverID)

AttachedServers(volumeList) ==
    {volumeList[i].Attachments[1] : i \in {j \in 1..Len(volumeList) :
                                              Len(volumeList[j].Attachments) = 1}}

\* ctx.Err() != nil
CtxErr_never(done) == FALSE

CtxErr(done) == done

\* vgWaitGroup.Wait() returns once every Add has been matched by a Done
WaitReturns_noBarrier(workers) == TRUE

WaitReturns(workers) == workers = {}

\* atomic.AddInt32(counter, 1): counter is the value the counter holds when
\* the add executes, seen the value it held when the worker was started
AtomicAddInt32_stale(counter, seen) == seen + 1

AtomicAddInt32(counter, seen) == counter + 1

\* the value RunProjectSnapshotWorkflow returns after the summary
WorkflowResult_failOnErrors(errors) == IF errors > 0 THEN "volumes failed" ELSE "nil"

WorkflowResult(errors) == "nil"

InitOrch ==
    /\ OrchFrameIdle
    /\ opc = "list"
    /\ \E a \in [1..MaxVolumes -> AttachmentInputs] :
          managedVolumes = [n \in 1..MaxVolumes |-> [ID |-> VolID(n), Attachments |-> a[n]]]
    /\ attachedLeft = {}
    /\ multiLeft = <<>>
    /\ unattachedLeft = <<>>
    /\ vols = <<>>
    /\ vi = 0
    /\ groupNo = 0
    /\ running = {}
    /\ started = {}
    /\ failed = {}
    /\ successCount = 0
    /\ errorCount = 0
    /\ octxDone = FALSE
    /\ oret = ""

\* 3., 4. the client cannot be initialised or the volumes cannot be listed:
\* the workflow returns the error
DiscoveryFails ==
    /\ opc = "list"
    /\ \E e \in {"client initialization failed", "listing volumes failed"} : oret' = e
    /\ opc' = "returned"
    /\ UNCHANGED <<managedVolumes, attachedLeft, multiLeft, unattachedLeft, vols, vi, groupNo,
                   running, started, failed, successCount, errorCount, octxDone>>
    /\ UNCHANGED orchFrame

\* 4., 5. the volumes are listed and grouped
DiscoverAndGroup ==
    /\ opc = "list"
    /\ ~octxDone
    /\ attachedLeft' = AttachedServers(managedVolumes)
    /\ multiLeft' = MultiAttached(managedVolumes)
    /\ unattachedLeft' = Unattached(managedVolumes)
    /\ opc' = "next"
    /\ UNCHANGED <<managedVolumes, vols, vi, groupNo, running, started, failed, successCount,
                   errorCount, octxDone, oret>>
    /\ UNCHANGED orchFrame

\* a variant that hands every remaining volume to one processVolumeGroup call
VolumeAlone_all(left) == left

\* []volumes.Volume{vol}: the slice holding the one volume the loop is at
VolumeAlone(left) == <<Head(left)>>

\* entry of processVolumeGroup
EnterGroup(group) ==
    /\ vols' = group
    /\ vi' = 0
    /\ groupNo' = groupNo + 1
    /\ opc' = "spawn"

\* the three loops of RunProjectSnapshotWorkflow: the map of attached volumes,
\* ranged over in an order the runtime picks, then the multi-attached and the
\* unattached volumes, each one a group of its own
NextGroup ==
    /\ opc = "next"
    /\ \/ /\ \E vm \in attachedLeft :
                /\ EnterGroup(AttachedTo(managedVolumes, vm))
                /\ attachedLeft' = attachedLeft \ {vm}
          /\ UNCHANGED <<multiLeft, unattachedLeft>>
       \/ /\ attachedLeft = {}
          /\ multiLeft # <<>>
          /\ EnterGroup(VolumeAlone(multiLeft))
          /\ multiLeft' = Tail(multiLeft)
          /\ UNCHANGED <<attachedLeft, unattachedLeft>>
       \/ /\ attachedLeft = {}
          /\ multiLeft = <<>>
          /\ unattachedLeft # <<>>
          /\ EnterGroup(VolumeAlone(unattachedLeft))
          /\ unattachedLeft' = Tail(unattachedLeft)
          /\ UNCHANGED <<attachedLeft, multiLeft>>
    /\ UNCHANGED <<managedVolumes, running, started, failed, successCount, errorCount,
                   octxDone, oret>>
    /\ UNCHANGED orchFrame

\* the deadline of context.WithTimeout passes
WorkflowDeadlineFires ==
    /\ opc \in {"list", "next", "spawn", "wait"}
    /\ ~octxDone
    /\ octxDone' = TRUE
    /\ UNCHANGED <<opc, managedVolumes, attachedLeft, multiLeft, unattachedLeft, vols, vi,
                   groupNo, running, started, failed, successCount, errorCount, oret>>
    /\ UNCHANGED orchFrame

\* the spawn loop: ctx.Err() is nil, vgWaitGroup.Add(1), go func
SpawnWorker ==
    /\ opc = "spawn"
    /\ vi < Len(vols)
    /\ ~CtxErr(octxDone)
    /\ running' = running \cup {[ID |-> vols[vi + 1].ID, group |-> groupNo,
                                 seen |-> [success |-> successCount, error |-> errorCount]]}
    /\ started' = started \cup {[ID |-> vols[vi + 1].ID, group |-> groupNo]}
    /\ vi' = vi + 1
    /\ UNCHANGED <<opc, managedVolumes, attachedLeft, multiLeft, unattachedLeft, vols, groupNo,
                   failed, successCount, errorCount, octxDone, oret>>
    /\ UNCHANGED orchFrame

\* the spawn loop: ctx.Err() is not nil, break
SpawnHalted ==
    /\ opc = "spawn"
    /\ vi < Len(vols)
    /\ CtxErr(octxDone)
    /\ opc' = "wait"
    /\ UNCHANGED <<managedVolumes, attachedLeft, multiLeft, unattachedLeft, vols, vi, groupNo,
                   running, started, failed, successCount, errorCount, octxDone, oret>>
    /\ UNCHANGED orchFrame

\* the spawn loop has ranged over every volume of the group
SpawnLoopEnds ==
    /\ opc = "spawn"
    /\ vi = Len(vols)
    /\ opc' = "wait"
    /\ UNCHANGED <<managedVolumes, attachedLeft, multiLeft, unattachedLeft, vols, vi, groupNo,
                   running, started, failed, successCount, errorCount, octxDone, oret>>
    /\ UNCHANGED orchFrame

\* a worker: processVolume returns, one counter is incremented, Done
WorkerFinishes ==
    /\ \E w \in running :
          /\ running' = running \ {w}
          /\ \/ /\ failed' = failed \cup {w.ID}
                /\ errorCount' = AtomicAddInt32(errorCount, w.seen.error)
                /\ UNCHANGED successCount
             \/ /\ successCount' = AtomicAddInt32(successCount, w.seen.success)
                /\ UNCHANGED <<failed, errorCount>>
    /\ UNCHANGED <<opc, managedVolumes, attachedLeft, multiLeft, unattachedLeft, vols, vi,
                   groupNo, started, octxDone, oret>>
    /\ UNCHANGED orchFrame

\* vgWaitGroup.Wait() returns and processVolumeGroup with it
GroupJoined ==
    /\ opc = "wait"
    /\ WaitReturns(running)
    /\ opc' = "next"
    /\ UNCHANGED <<managedVolumes, attachedLeft, multiLeft, unattachedLeft, vols, vi, groupNo,
                   running, started, failed, successCount, errorCount, octxDone, oret>>
    /\ UNCHANGED orchFrame

\* the three loops are over: the summary is logged and the workflow returns
WorkflowReturns ==
    /\ opc = "next"
    /\ attachedLeft = {} /\ multiLeft = <<>> /\ unattachedLeft = <<>>
    /\ oret' = WorkflowResult(errorCount)
    /\ opc' = "returned"
    /\ UNCHANGED <<managedVolumes, attachedLeft, multiLeft, unattachedLeft, vols, vi, groupNo,
                   running, started, failed, successCount, errorCount, octxDone>>
    /\ UNCHANGED orchFrame

NextOrch ==
    \/ DiscoveryFails
    \/ DiscoverAndGroup
    \/ NextGroup
    \/ WorkflowDeadlineFires
    \/ SpawnWorker
    \/ SpawnHalted
    \/ SpawnLoopEnds
    \/ WorkerFinishes
    \/ GroupJoined
    \/ WorkflowReturns

SpecOrch == InitOrch /\ [][NextOrch]_vars
C17_NoStartAfterDeadline ==
    /\ [][octxDone => started' = started]_vars
    /\ [](opc = "returned" => running = {})

\* the deadline passed while a worker was running and a volume of the group
\* had not been started: the loop broke and the orchestrator is waiting
C17_Witness ==
    /\ octxDone
    /\ opc = "wait"
    /\ vi < Len(vols)
    /\ running # {}

\* the same run later: returned, with volumes never started
C17_WitnessReturned ==
    /\ octxDone
    /\ opc = "returned" /\ oret = "nil"
    /\ started # {}
    /\ Cardinality(started) < MaxVolumes

\* C18: at every moment each worker that has finished has added one to
\* exactly one counter, and when the workflow has returned every started
\* worker has: successCount + errorCount is the number of workers started
\* and errorCount the number of volumes whose processing returned an error.
C18_CountersExact ==
    /\ successCount + errorCount = Cardinality(started) - Cardinality(running)
    /\ errorCount = Cardinality(failed)
    /\ opc = "returned" => successCount + errorCount = Cardinality(started)

\* a finished run in which two workers of one group ran together, one volume
\* failed and two succeeded
C18_Witness ==
    /\ opc = "returned"
    /\ errorCount = 1 /\ successCount = 2
    /\ \E s1, s2 \in started : s1.ID # s2.ID /\ s1.group = s2.group

DiscoveryErrors == {"client initialization failed", "listing volumes failed"}

VolumeIDs == {managedVolumes[i].ID : i \in 1..Len(managedVolumes)}

\* C19: a volume whose processing fails is counted and nothing else changes:
\* once the volumes were discovered the workflow returns nil whatever the
\* error count, and unless the deadline passed every volume was started.
C19_FailureDoesNotAbort ==
    /\ errorCount = Cardinality(failed)
    /\ (opc = "returned" /\ oret \notin DiscoveryErrors) =>
          /\ oret = "nil"
          /\ ~octxDone => {s.ID : s \in started} = VolumeIDs

\* a volume of the first group failed, volumes of later groups were started
\* all the same, and the workflow returned nil with an error counted
C19_Witness ==
    /\ opc = "returned" /\ oret = "nil"
    /\ ~octxDone
    /\ errorCount >= 1
    /\ \E f \in started : f.ID \in failed /\ \E s \in started : s.group > f.group
    /\ {s.ID : s \in started} = VolumeIDs
(***************************************************************************)
(* internal/workflow: processVolume, the loop over the four policies of    *)
(* one volume.  A call to another service is two steps, the call and its   *)
(* return; callLog records both.                                           *)
(***************************************************************************)
\* the tags of one kind found on the volume: none, a valid enabled policy, an
\* enabled policy that Normalize refuses, a disabled policy, and an enabled
\* policy whose retention is no integer, so that decoding fails
TagChoices == {"absent", "enabled", "invalid", "disabled", "malformed"}

MalformedRetention == <<"s", "o", "o", "n">>

KindTags(kind, choice) ==
    CASE choice = "absent"   -> <<>>
      [] choice = "enabled"  ->
            ToOpenstackMetadata(Normalize(NewPolicy(kind, TRUE, 0, "", <<>>, "Mon", 15, 6)).p)
      [] choice = "invalid"  ->
            ToOpenstackMetadata(NewPolicy(kind, TRUE, 0, "Mars/Olympus", <<>>, "Mon", 15, 6))
      [] choice = "disabled" ->
            ToOpenstackMetadata(NewPolicy(kind, FALSE, 0, "", <<>>, "Mon", 15, 6))
      [] choice = "malformed" ->
            [ToOpenstackMetadata(Normalize(NewPolicy(kind, TRUE, 0, "", <<>>, "Mon", 15, 6)).p)
                EXCEPT ![Key(kind, "retention-days")] = MalformedRetention]

\* vol.Metadata: the tags of the four kinds side by side
VolumeTags(choice) ==
    MapsCopy(MapsCopy(KindTags("express", choice[1]), KindTags("daily", choice[2])),
             MapsCopy(KindTags("weekly", choice[3]), KindTags("monthly", choice[4])))

CoveredInputs == {{}, {"daily"}, {"express", "weekly"}, {"express", "daily", "weekly", "monthly"}}

\* the instant of the run
ProcessVolumeNow == CivilMinutes(2025, 3, 30, 12, 0)

InitVolume ==
    /\ PvFrameIdle
    /\ kpc = "load"
    /\ ki = 1
    /\ \E choice \in [1..4 -> TagChoices] : volMetadata = VolumeTags(choice)
    /\ wallClock = ProcessVolumeNow
    /\ covered \in CoveredInputs
    /\ evalResult = EmptyResult
    /\ callLog = <<>>
    /\ inflight = {}
    /\ execErrors = <<>>

\* the policy of the iteration in progress
policyType == PolicyKinds[ki]

\* a call to another service is issued
Call(op) ==
    /\ callLog' = Append(callLog, [kind |-> policyType, op |-> op, ev |-> "call",
                                   failed |-> FALSE])
    /\ inflight' = inflight \cup {[kind |-> policyType, op |-> op]}

\* the call in flight returns
CallReturns(op) ==
    /\ callLog' = Append(callLog, [kind |-> policyType, op |-> op, ev |-> "return",
                                   failed |-> FALSE])
    /\ inflight' = inflight \ {[kind |-> policyType, op |-> op]}

\* the call in flight returns an error
CallFails(op) ==
    /\ callLog' = Append(callLog, [kind |-> policyType, op |-> op, ev |-> "return",
                                   failed |-> TRUE])
    /\ inflight' = inflight \ {[kind |-> policyType, op |-> op]}

\* a variant that keeps only the error joined last
errorsJoin_last(errs, step) == <<[kind |-> policyType, step |-> step]>>

\* execErrors = errors.Join(execErrors, fmt.Errorf("%s policy ...", policyType, err))
errorsJoin(errs, step) == Append(errs, [kind |-> policyType, step |-> step])

\* continue: the next policy of the slice
Continue ==
    /\ ki' = ki + 1
    /\ kpc' = "load"

\* A. the policy is hydrated from the volume's metadata; a disabled policy is
\* skipped, one Normalize refuses is skipped with an error, and for any other
\* B. the snapshot history is asked for
LoadKind ==
    /\ kpc = "load"
    /\ ki <= Len(PolicyKinds)
    /\ IF ~ParseFromMetadata(ZeroPolicy(policyType), volMetadata).Enabled
       THEN Continue /\ UNCHANGED <<callLog, inflight, execErrors>>
       ELSE IF ~LoadedPolicy(policyType, volMetadata).ok
            THEN /\ Continue
                 /\ execErrors' = errorsJoin(execErrors, "configuration is invalid or skipped")
                 /\ UNCHANGED <<callLog, inflight>>
            ELSE Call("ListManagedVolumeSnapshots") /\ kpc' = "listing"
                 /\ UNCHANGED <<ki, execErrors>>
    /\ UNCHANGED <<volMetadata, wallClock, covered, evalResult>>
    /\ UNCHANGED pvFrame

\* snapshots[0] turned into a LastSnapshotInfo, or the zero value
LastSnapshotOf(kind) ==
    IF kind \in covered THEN [ID |-> "snap-" \o kind, CreatedAt |-> wallClock - 1]
    ELSE NoSnapshot

EvaluateLoaded(kind) ==
    Evaluate(LoadedPolicy(kind, volMetadata).p, wallClock, LastSnapshotOf(kind))

\* B. the history call fails and the policy is skipped
ListFails ==
    /\ kpc = "listing"
    /\ CallFails("ListManagedVolumeSnapshots")
    /\ execErrors' = errorsJoin(execErrors, "snapshot history retrieval failed")
    /\ Continue
    /\ UNCHANGED <<volMetadata, wallClock, covered, evalResult>>
    /\ UNCHANGED pvFrame

\* B. the history call returns, C. the policy is evaluated, and D. the create
\* call is issued when a snapshot is due
ListReturns ==
    /\ kpc = "listing"
    /\ evalResult' = EvaluateLoaded(policyType)
    /\ IF EvaluateLoaded(policyType).ShouldSnapshot
       THEN /\ callLog' = callLog
                  \o <<[kind |-> policyType, op |-> "ListManagedVolumeSnapshots", ev |-> "return",
                failed |-> FALSE],
                       [kind |-> policyType, op |-> "CreateManagedSnapshot", ev |-> "call",
                        failed |-> FALSE]>>
            /\ inflight' = {[kind |-> policyType, op |-> "CreateManagedSnapshot"]}
            /\ kpc' = "creating"
            /\ UNCHANGED ki
       ELSE CallReturns("ListManagedVolumeSnapshots") /\ Continue
    /\ UNCHANGED <<volMetadata, wallClock, covered, execErrors>>
    /\ UNCHANGED pvFrame

\* D. the snapshot was created
CreateSucceeds ==
    /\ kpc = "creating"
    /\ CallReturns("CreateManagedSnapshot")
    /\ Continue
    /\ UNCHANGED <<volMetadata, wallClock, covered, evalResult, execErrors>>
    /\ UNCHANGED pvFrame

\* D. the create call failed: the error is joined and the webhook is called
CreateFails ==
    /\ kpc = "creating"
    /\ callLog' = callLog
          \o <<[kind |-> policyType, op |-> "CreateManagedSnapshot", ev |-> "return",
                failed |-> TRUE],
               [kind |-> policyType, op |-> "Notify", ev |-> "call",
                failed |-> FALSE]>>
    /\ inflight' = {[kind |-> policyType, op |-> "Notify"]}
    /\ execErrors' = errorsJoin(execErrors, "snapshot resource creation failed")
    /\ kpc' = "notifying"
    /\ UNCHANGED <<ki, volMetadata, wallClock, covered, evalResult>>
    /\ UNCHANGED pvFrame

\* the webhook call returns; createdSnap is the zero snapshot on every error
\* return of CreateManagedSnapshot, so the orphan cleanup is not entered
NotifyReturns ==
    /\ kpc = "notifying"
    /\ CallReturns("Notify")
    /\ Continue
    /\ UNCHANGED <<volMetadata, wallClock, covered, evalResult, execErrors>>
    /\ UNCHANGED pvFrame

\* the loop is over: return execErrors
ProcessVolumeReturns ==
    /\ kpc = "load"
    /\ ki > Len(PolicyKinds)
    /\ kpc' = "returned"
    /\ UNCHANGED <<ki, volMetadata, wallClock, covered, evalResult, callLog, inflight,
                   execErrors>>
    /\ UNCHANGED pvFrame

NextVolume ==
    \/ LoadKind
    \/ ListFails
    \/ ListReturns
    \/ CreateSucceeds
    \/ CreateFails
    \/ NotifyReturns
    \/ ProcessVolumeReturns

SpecVolume == InitVolume /\ [][NextVolume]_vars

(***************************************************************************)
(* Claims about processVolume, checked under SpecVolume.                   *)
(***************************************************************************)
\* the order the kinds are to be handled in
StatedOrder == <<"express", "daily", "weekly", "monthly">>

StatedRank(kind) == CHOOSE i \in 1..Len(StatedOrder) : StatedOrder[i] = kind

\* calls and returns among the first n entries of the log
Count(n, ev) == Cardinality({i \in 1..n : callLog[i].ev = ev})

\* C20: within one volume the kinds are handled in the order Express, Daily,
\* Weekly, Monthly and one at a time: the log of calls never goes back to an
\* earlier kind, at most one call is in flight, and a call is issued only
\* when every call issued before it, for this kind or an earlier one, has
\* returned.
C20_KindsInOrder ==
    /\ \A i, j \in 1..Len(callLog) :
          i < j => StatedRank(callLog[i].kind) <= StatedRank(callLog[j].kind)
    /\ Cardinality(inflight) <= 1
    /\ \A i \in 1..Len(callLog) :
          callLog[i].ev = "call" => Count(i - 1, "call") = Count(i - 1, "return")
    /\ kpc = "returned" => inflight = {}

\* a finished run that made calls for all four kinds, a failed create among them
C20_Witness ==
    /\ kpc = "returned"
    /\ \A k \in 1..Len(StatedOrder) :
          \E i \in 1..Len(callLog) : callLog[i].kind = StatedOrder[k]
    /\ \E i \in 1..Len(callLog) : callLog[i].op = "Notify"
    /\ \E i \in 1..Len(callLog) : callLog[i].op = "CreateManagedSnapshot"
(***************************************************************************)
(* Claims about snapshots whose metadata does not decode, checked under    *)
(* SpecExpiry.                                                             *)
(***************************************************************************)
\* the stored metadata holds a value that its field cannot take: a managed
\* flag that is no boolean, an expiry date that is no RFC3339 time, or a
\* retention that is no integer
FailsToParse(metadata) ==
    \/ ~DecodeBool(metadata, SnapshotManagedTag).ok
    \/ ~DecodeTime(metadata, SnapshotExpiryTag).ok
    \/ ~DecodeInt(metadata, SnapshotRetentionTag).ok

\* C21: during an expiry sweep a snapshot whose stored metadata fails to
\* parse is skipped: no DeleteSnapshot is ever issued for it, whether it is
\* still on the service or was handed to the loop.
C21_UnparseableNeverDeleted ==
    \A snap \in cinder \cup Processed :
        FailsToParse(snap.Metadata) => snap.ID \notin deleteCalls

\* a finished sweep that deleted an expired snapshot and left alone an
\* available snapshot flagged as managed whose expiry date does not parse
C21_Witness ==
    /\ xpc = "returned" /\ xret = "nil"
    /\ deleteCalls # {}
    /\ \E snap \in cinder :
          /\ snap.Status = "available"
          /\ DecodeBool(snap.Metadata, SnapshotManagedTag).val
          /\ ~DecodeTime(snap.Metadata, SnapshotExpiryTag).ok
          /\ snap.ID \notin deleteCalls
(***************************************************************************)
(* Claims about deletion failures, checked under SpecExpiry.               *)
(***************************************************************************)
\* the recorded expiry date of a listed snapshot has passed
Expired(snap) ==
    /\ ~FailsToParse(snap.Metadata)
    /\ RecordedExpiry(snap) <= refTime

\* the snapshot would be listed as managed by the next sweep
ListedNext(id) ==
    \E i \in 1..Len(ListManagedSnapshots(cinder)) : ListManagedSnapshots(cinder)[i].ID = id

\* C22: the expiry workflow does not abort on a deletion failure: once a
\* DeleteSnapshot has failed the workflow returns only nil after the whole
\* list (or the deadline error), every snapshot examined, also after the
\* failed one, has had DeleteSnapshot issued if it is expired, and the
\* snapshot whose deletion failed is still on the service, to be listed by
\* the next sweep.
C22_DeleteFailureDoesNotAbort ==
    /\ (xpc = "returned" /\ deleteFailed # {} /\ xret # "deadline exceeded")
          => (xret = "nil" /\ idx = Len(managedSnapshots))
    /\ \A i \in 1..idx : \A j \in i + 1..idx :
          (managedSnapshots[i].ID \in deleteFailed /\ Expired(managedSnapshots[j]))
             => managedSnapshots[j].ID \in deleteCalls
    /\ \A id \in deleteFailed : ListedNext(id)

\* a finished sweep in which DeleteSnapshot failed for one expired snapshot
\* and a later expired snapshot was deleted
C22_Witness ==
    /\ xpc = "returned" /\ xret = "nil"
    /\ \E i \in 1..idx : \E j \in i + 1..idx :
          /\ managedSnapshots[i].ID \in deleteFailed
          /\ Expired(managedSnapshots[j])
          /\ managedSnapshots[j].ID \in deleteCalls \ deleteFailed
          /\ ~ListedNext(managedSnapshots[j].ID)
(***************************************************************************)
(* The expiry workflow run again and again (the command is started by a    *)
(* scheduler), over the snapshots the service holds.  deleteCalls keeps    *)
(* the calls of all sweeps.                                                *)
(***************************************************************************)
\* the next run of RunProjectSnapshotExpiryWorkflow begins
StartSweep ==
    /\ xpc = "returned"
    /\ xpc' = "list"
    /\ managedSnapshots' = <<>>
    /\ idx' = 0
    /\ deleteFailed' = {}
    /\ ctxDone' = FALSE
    /\ xret' = ""
    /\ UNCHANGED <<refTime, cinder, deleteCalls>>
    /\ UNCHANGED expiryFrame

NextSweeps ==
    \/ NextExpiry
    \/ StartSweep

\* snapshots.List answers
ListAnswered == ListManagedSnapshotsCall /\ xret' # "error"

\* the iteration for the snapshot with this id runs and its backend call, if
\* any, succeeds
ProcessedWithoutError(id) ==
    /\ ProcessSnapshotExpiry
    /\ managedSnapshots[idx + 1].ID = id
    /\ deleteFailed' = deleteFailed

\* sweeps keep running, and backend calls succeed
SweepsFairness ==
    /\ WF_vars(NextSweeps)
    /\ SF_vars(ListAnswered)
    /\ \A n \in 1..MaxSnapshots : SF_vars(ProcessedWithoutError(SnapID(n)))

SpecSweeps == InitExpiry /\ [][NextSweeps]_vars /\ SweepsFairness

\* the service holds, as snapshot n, an available snapshot with the metadata
\* the creation workflow writes, whose expiry date is not after the
\* reference time
CreatedAndExpired(n) ==
    \E snap \in cinder :
        /\ snap.ID = SnapID(n)
        /\ snap.Status = "available"
        /\ snap.Metadata = WrittenMetadata
        /\ ParseRFC3339(snap.Metadata[SnapshotExpiryKey]).ok
        /\ ParseRFC3339(snap.Metadata[SnapshotExpiryKey]).val <= refTime

\* C23: every snapshot created by the creation workflow is eventually
\* deleted: if sweeps keep running with the reference time at or after the
\* snapshot's expiry date and backend calls succeed, some sweep lists the
\* snapshot as managed and issues DeleteSnapshot for it.
C23_CreatedEventuallyDeleted ==
    \A n \in 1..MaxSnapshots : CreatedAndExpired(n) ~> (SnapID(n) \in deleteCalls)
(***************************************************************************)
(* Claims about Normalize, checked under SpecEval.  A claim that relates   *)
(* the policy as given to the policy as normalized is a property of the    *)
(* Normalize step: policy is the struct before the call, policy' after it. *)
(***************************************************************************)
\* Normalize of an express policy whose time zone loads
ExpressNormalizeCall ==
    /\ ppc = "raw"
    /\ policy.kind = "express"
    /\ helperNormalizeTimezone(policy.TimeZone).ok

\* C24 as stated: Express Normalize accepts only the interval values 6, 8 and
\* 12, coerces 0 to 6, and fails on every other value.
C24_OnlyZeroCoerced ==
    [][ExpressNormalizeCall =>
          /\ (ppc' = "normalized") <=> (policy.IntervalHours \in {0, 6, 8, 12})
          /\ (ppc' = "normalized") =>
                policy'.IntervalHours = IF policy.IntervalHours = 0 THEN 6
                                        ELSE policy.IntervalHours]_vars

\* C24 as amended: Express Normalize coerces every interval of zero or less
\* to 6, keeps 6, 8 and 12, and fails on every other positive value, which it
\* leaves in the struct; after a successful Normalize the interval is 6, 8 or
\* 12.
C24_NonPositiveCoerced ==
    [][ExpressNormalizeCall =>
          /\ (ppc' = "normalized") <=>
                (policy.IntervalHours <= 0 \/ policy.IntervalHours \in {6, 8, 12})
          /\ (ppc' = "normalized") =>
                /\ policy'.IntervalHours = IF policy.IntervalHours <= 0 THEN 6
                                           ELSE policy.IntervalHours
                /\ policy'.IntervalHours \in {6, 8, 12}
          /\ (ppc' # "normalized") =>
                (ppc' = "invalid" /\ policy'.IntervalHours = policy.IntervalHours)]_vars

\* Normalize has refused an express policy with a valid time zone and the
\* daily interval
C24_Witness ==
    /\ ppc = "invalid"
    /\ policy.kind = "express"
    /\ policy.Loc \in KnownZones
    /\ policy.IntervalHours = 24

\* the default retention the specification states for each kind
StatedDefaultRetention ==
    [express |-> 1, daily |-> 2, weekly |-> 7, monthly |-> 30]

\* C25: Normalize replaces a retention of zero or less by the kind-specific
\* default (Daily 2, Weekly 7, Monthly 30, Express 1) and leaves every
\* positive retention unchanged, so after a successful Normalize
\* retentionDays >= 1.
C25_RetentionDefault ==
    [][(ppc = "raw" /\ ppc' = "normalized") =>
          /\ policy'.RetentionDays =
                IF policy.RetentionDays <= 0 THEN StatedDefaultRetention[policy.kind]
                ELSE policy.RetentionDays
          /\ policy'.RetentionDays >= 1]_vars

\* a normalized monthly policy carrying the default, which no input holds
C25_Witness ==
    /\ ppc = "normalized"
    /\ policy.kind = "monthly"
    /\ policy.RetentionDays = 30

\* a normalized weekly policy that kept its positive retention
C25_WitnessKept ==
    /\ ppc = "normalized"
    /\ policy.kind = "weekly"
    /\ policy.RetentionDays = MaxRetention

\* Normalize of a weekly policy whose time zone loads, whose start time
\* parses and whose target weekday is set
WeeklyNormalizeCall ==
    /\ ppc = "raw"
    /\ policy.kind = "weekly"
    /\ helperNormalizeTimezone(policy.TimeZone).ok
    /\ helperNormalizeStartTime(policy.StartTime).ok
    /\ policy.DayOfWeek # ""

\* the day string with its letters in lower case
LowerCase(dayStr) ==
    CASE dayStr = "FRIDAY" -> "friday"
      [] dayStr = "Mon"    -> "mon"
      [] OTHER             -> dayStr

StatedDayNames ==
    <<{"sunday", "sun", "0"}, {"monday", "mon", "1"}, {"tuesday", "tue", "2"},
      {"wednesday", "wed", "3"}, {"thursday", "thu", "4"}, {"friday", "fri", "5"},
      {"saturday", "sat", "6"}>>

\* the weekdays (0 = Sunday) the day string names, whatever its letter case
StatedWeekdays(dayStr) == {w \in 0..6 : LowerCase(dayStr) \in StatedDayNames[w + 1]}

\* C26: Weekly Normalize accepts the target weekday as a full name or
\* three-letter abbreviation in any letter case, or as a digit "0" to "6"
\* (0 = Sunday), maps it to the corresponding weekday, and fails on any other
\* string.
C26_WeekdayAnyCase ==
    [][WeeklyNormalizeCall =>
          /\ (ppc' = "normalized") <=> (StatedWeekdays(policy.DayOfWeek) # {})
          /\ (ppc' = "normalized") =>
                policy'.startDayWeekday \in StatedWeekdays(policy.DayOfWeek)]_vars
(***************************************************************************)
(* Claims about helperEvaluateWindow, checked under SpecPure.              *)
(***************************************************************************)
\* C27: window selection: the evaluator returns the window
\* [potentialStart - duration, potentialStart) when now < potentialStart and
\* [potentialStart, potentialStart + duration) otherwise; in both cases
\* windowEnd - windowStart = duration and windowEnd > windowStart.
C27_WindowSelection ==
    fn = "helperEvaluateWindow" =>
        /\ ret.Window.StartTime =
              IF arg.now < arg.potentialStart THEN arg.potentialStart - arg.duration
              ELSE arg.potentialStart
        /\ ret.Window.EndTime =
              IF arg.now < arg.potentialStart THEN arg.potentialStart
              ELSE arg.potentialStart + arg.duration
        /\ ret.Window.EndTime - ret.Window.StartTime = arg.duration
        /\ ret.Window.EndTime > ret.Window.StartTime

\* an evaluation a minute before the potential start, which got the window
\* of the previous cycle and a take
C27_Witness ==
    /\ fn = "helperEvaluateWindow"
    /\ arg.now = arg.potentialStart - 1
    /\ ret.Window.EndTime = arg.potentialStart
    /\ ret.ShouldSnapshot

\* an evaluation at the potential start itself, which got the window that
\* begins there
C27_WitnessAtStart ==
    /\ fn = "helperEvaluateWindow"
    /\ arg.now = arg.potentialStart
    /\ ret.Window.StartTime = arg.potentialStart
(***************************************************************************)
(* Claims about the windows of the policy kinds, checked under SpecEval.   *)
(***************************************************************************)
\* Evaluate has run on an enabled policy of this kind
EvaluatedKind(kind) == Evaluated /\ policy.kind = kind /\ policy.Enabled

\* the local reading of the start of the returned window
WindowStartLocal == Local(result.Window.StartTime, policy.Loc)

\* C28: weekly window: for every evaluation instant and every target
\* weekday, the window returned by Evaluate starts on the target weekday at
\* startTime, lasts 168h and contains now (so when aligning today to the
\* target weekday lands in the future, it is the window that began on the
\* previous occurrence of the target weekday), and the idempotency check is
\* made against that window.
C28_WeeklyWindow ==
    EvaluatedKind("weekly") =>
        /\ WindowStartLocal.weekday = policy.startDayWeekday
        /\ WindowStartLocal.hour = policy.startHour
        /\ WindowStartLocal.minute = policy.startMinute
        /\ result.Window.EndTime - result.Window.StartTime = 7 * 24 * 60
        /\ InReturnedWindow(now)
        /\ result.ShouldSnapshot <=> ~(HasLastSnap /\ InReturnedWindow(lastSnap.CreatedAt))

\* the local reading of the evaluation instant
NowLocal == Local(now, policy.Loc)

\* the calendar month `shift` months from the month of now, the year carried
\* over in January and December
ShiftedMonth(shift) ==
    IF NowLocal.month + shift = 0 THEN [year |-> NowLocal.year - 1, month |-> 12]
    ELSE IF NowLocal.month + shift = 13 THEN [year |-> NowLocal.year + 1, month |-> 1]
    ELSE [year |-> NowLocal.year, month |-> NowLocal.month + shift]

\* the clamped anchor of that month: the policy's day, or the month's last
\* day when the month is shorter, at the start time in the policy's zone
ClampedAnchorOf(ym) ==
    Date(ym.year, ym.month, Min2(policy.DayOfMonth, DaysInMonth(ym.year, ym.month)),
         policy.startHour, policy.startMinute, policy.Loc)

ClampedAnchor(shift) == ClampedAnchorOf(ShiftedMonth(shift))

\* the bounds of the monthly window are the clamped anchors of two
\* consecutive months and the window contains now
MonthlyBoundsStated ==
    /\ result.Window.StartTime =
          IF now < ClampedAnchor(0) THEN ClampedAnchor(-1) ELSE ClampedAnchor(0)
    /\ result.Window.EndTime =
          IF now < ClampedAnchor(0) THEN ClampedAnchor(0) ELSE ClampedAnchor(1)
    /\ InReturnedWindow(now)
    /\ result.Reason # "outside the active window"

WindowLength == result.Window.EndTime - result.Window.StartTime

\* the number of local calendar dates from the window's start to its end
WindowCalendarDays ==
    LocalDayNumber(result.Window.EndTime) - LocalDayNumber(result.Window.StartTime)

C29_WitnessClamped ==
    /\ EvaluatedKind("monthly")
    /\ policy.DayOfMonth = 31
    /\ WindowStartLocal.month = 2 /\ WindowStartLocal.day = 28
    /\ Local(result.Window.EndTime, policy.Loc).day = 31

\* the first hour of the bucket that holds the local hour of now
SlotStartHour == (NowLocal.hour \div policy.IntervalHours) * policy.IntervalHours

\* C30: express window: for current local hour h and interval i in
\* {6, 8, 12}, windowStart is today at hour (h div i) x i, the window lasts
\* i hours and contains now; the buckets tile each day from local midnight,
\* so no bucket crosses midnight, and the window is fixed by the local date
\* and the bucket of now, so two instants in the same bucket get the same
\* window.
C30_ExpressWindow ==
    EvaluatedKind("express") =>
        /\ policy.IntervalHours \in {6, 8, 12}
        /\ WindowStartLocal.year = NowLocal.year
        /\ WindowStartLocal.month = NowLocal.month
        /\ WindowStartLocal.day = NowLocal.day
        /\ WindowStartLocal.hour = SlotStartHour
        /\ WindowStartLocal.minute = 0
        /\ WindowLength = policy.IntervalHours * 60
        /\ InReturnedWindow(now)
        /\ LocalDayNumber(result.Window.EndTime - 1) = LocalDayNumber(result.Window.StartTime)
(***************************************************************************)
(* Stability of the daily window across evaluation instants, checked       *)
(* under SpecEval.                                                         *)
(***************************************************************************)
\* the window Daily Evaluate computes at another instant for the same policy
DailyWindowAt(t) == EvaluateDaily(policy, t, NoSnapshot).Window

\* two half-open windows share no instant
WindowsDisjoint(w1, w2) == w1.EndTime <= w2.StartTime \/ w2.EndTime <= w1.StartTime

WindowsIdentical(w1, w2) == w1.StartTime = w2.StartTime /\ w1.EndTime = w2.EndTime

\* C31: daily window stability: the windows Daily Evaluate computes at any
\* two evaluation instants are either identical or disjoint, and the window
\* computed at the end of a window starts exactly there (no gap), also on
\* days where the policy zone has a DST transition.
C31_DailyWindowStable ==
    EvaluatedKind("daily") =>
        /\ \A t2 \in NowInputs :
               \/ WindowsIdentical(result.Window, DailyWindowAt(t2))
               \/ WindowsDisjoint(result.Window, DailyWindowAt(t2))
        /\ DailyWindowAt(result.Window.EndTime).StartTime = result.Window.EndTime
(***************************************************************************)
(* The backoff wait, checked under SpecRetry.                              *)
(***************************************************************************)
\* the waits the stated formula allows before retry number attempt + 1:
\* min(backoff + jitter, maxDelay) with 0 <= jitter < backoff / 2
StatedSleeps(cfg, a) ==
    {Min2(BackoffOf(cfg, a) + jitter, cfg.MaxDelay) :
        jitter \in {j \in 0 .. BackoffOf(cfg, a) : 2 * j < BackoffOf(cfg, a)}}

\* C32: backoff bound: every Backoff step begins a wait, and that wait is
\* min(baseDelay * 2^attempt + jitter, maxDelay) with
\* 0 <= jitter < (baseDelay * 2^attempt) / 2, at most maxDelay and at least
\* min(baseDelay * 2^attempt, maxDelay), for every positive baseDelay and
\* every attempt index up to maxRetries.
C32_BackoffBound ==
    [][Backoff =>
          /\ sleeps' = sleeps + 1
          /\ lastSleep' \in StatedSleeps(rcfg, attempt)
          /\ lastSleep' <= rcfg.MaxDelay
          /\ lastSleep' >= Min2(BackoffOf(rcfg, attempt), rcfg.MaxDelay)]_vars
(***************************************************************************)
(* Grouping of the listed volumes, checked under SpecOrch.                 *)
(***************************************************************************)
\* GroupVolumeByVMAttachment has returned and no group has been entered yet
Grouped == opc = "next" /\ groupNo = 0

\* how often a volume occurs in a list of volumes
Occurrences(volumeList, id) ==
    Cardinality({i \in 1..Len(volumeList) : volumeList[i].ID = id})

RECURSIVE OccurrencesInAttached(_, _)
\* how often a volume occurs under the keys of the Attached map
OccurrencesInAttached(servers, id) ==
    IF servers = {} THEN 0
    ELSE LET vm == CHOOSE x \in servers : TRUE
         IN  Occurrences(AttachedTo(managedVolumes, vm), id)
               + OccurrencesInAttached(servers \ {vm}, id)

\* C33: GroupVolumeByVMAttachment partitions the input: every volume occurs
\* exactly once over Attached, MultiAttached and Unattached together: under
\* its server's key when it has exactly one attachment, in MultiAttached
\* when it has two or more, in Unattached when it has none.
C33_GroupingPartitions ==
    Grouped =>
        \A i \in 1..Len(managedVolumes) :
            LET v == managedVolumes[i]
            IN  /\ OccurrencesInAttached(attachedLeft, v.ID)
                     + Occurrences(multiLeft, v.ID)
                     + Occurrences(unattachedLeft, v.ID) = 1
                /\ Len(v.Attachments) = 0 => Occurrences(unattachedLeft, v.ID) = 1
                /\ Len(v.Attachments) > 1 => Occurrences(multiLeft, v.ID) = 1
                /\ Len(v.Attachments) = 1 =>
                      /\ v.Attachments[1] \in attachedLeft
                      /\ Occurrences(AttachedTo(managedVolumes, v.Attachments[1]), v.ID) = 1

\* a listing with one volume of each sort, grouped
C33_Witness ==
    /\ Grouped
    /\ Len(multiLeft) = 1 /\ Len(unattachedLeft) = 1
    /\ attachedLeft # {}

\* two volumes filed under the same server
C33_WitnessSharedServer ==
    /\ Grouped
    /\ \E vm \in attachedLeft : Len(AttachedTo(managedVolumes, vm)) = 2
(***************************************************************************)
(* Multi-attached and unattached volumes, checked under SpecOrch.          *)
(***************************************************************************)
\* the listed volume with this ID
ListedVolume(id) ==
    managedVolumes[CHOOSE i \in 1..Len(managedVolumes) : managedVolumes[i].ID = id]

\* the volume is processed in a group of its own: it is in MultiAttached or
\* in Unattached
ProcessedAlone(id) == Len(ListedVolume(id).Attachments) # 1

\* C34: while MultiAttached and Unattached volumes are being processed at
\* most one volume worker is running at any time: a worker of such a volume
\* runs alone, and a worker for such a volume is started only when every
\* worker started before it has been joined.
C34_OneAtATime ==
    /\ []((\E w \in running : ProcessedAlone(w.ID)) => Cardinality(running) = 1)
    /\ [][\A s \in started' \ started : ProcessedAlone(s.ID) => running = {}]_vars

\* the second of two volumes processed alone is running, the first is joined
C34_Witness ==
    /\ \E w \in running : ProcessedAlone(w.ID)
    /\ \E s \in started : ProcessedAlone(s.ID) /\ \A w \in running : w.ID # s.ID
    /\ Cardinality(running) = 1
(***************************************************************************)
(* Claims about the errors of one volume, checked under SpecVolume.        *)
(***************************************************************************)
\* the kinds whose iteration has ended
KindsDone == {PolicyKinds[i] : i \in 1..(ki - 1)}

\* the policy of this kind is enabled and Normalize refuses it
NormalizeRefuses(kind) ==
    /\ ParseFromMetadata(ZeroPolicy(kind), volMetadata).Enabled
    /\ ~LoadedPolicy(kind, volMetadata).ok

\* a call for this kind returned an error
CallFailed(kind, op) ==
    \E i \in 1..Len(callLog) :
        callLog[i] = [kind |-> kind, op |-> op, ev |-> "return", failed |-> TRUE]

CallIssued(kind, op) ==
    \E i \in 1..Len(callLog) :
        callLog[i] = [kind |-> kind, op |-> op, ev |-> "call", failed |-> FALSE]

\* the aggregate error holds an error of this kind and step
Joined(kind, step) ==
    \E i \in 1..Len(execErrors) : execErrors[i] = [kind |-> kind, step |-> step]

\* a Normalize failure, a history-fetch failure or a creation failure
KindFailed(kind) ==
    \/ kind \in KindsDone /\ NormalizeRefuses(kind)
    \/ CallFailed(kind, "ListManagedVolumeSnapshots")
    \/ CallFailed(kind, "CreateManagedSnapshot")

AllKinds == {PolicyKinds[i] : i \in 1..Len(PolicyKinds)}

C35_WitnessNil ==
    /\ kpc = "returned"
    /\ execErrors = <<>>
    /\ \E kind \in AllKinds : CallIssued(kind, "CreateManagedSnapshot")

\* the kind's enabled flag is false or absent, or its tags fail to parse
SkippedSilently(kind) ==
    \/ ~DecodeBool(volMetadata, Key(kind, "enabled")).val
    \/ ~ParsePolicyFromSDK(kind, volMetadata).ok

\* C36: a policy kind whose enabled flag is false or absent, or whose tags
\* fail to parse, is skipped silently in processVolume: no call to another
\* service is made for it and no error of it is joined into the volume's
\* aggregate error.
C36_DisabledSkippedSilently ==
    \A kind \in AllKinds :
        SkippedSilently(kind) =>
            /\ \A i \in 1..Len(callLog) : callLog[i].kind # kind
            /\ \A i \in 1..Len(execErrors) : execErrors[i].kind # kind

\* a finished run over a volume with a kind whose enabled flag reads true
\* but whose tags fail to parse, a disabled kind, a kind without tags, and a
\* kind that was handled
C36_Witness ==
    /\ kpc = "returned"
    /\ \E k1, k2, k3, k4 \in AllKinds :
          /\ DecodeBool(volMetadata, Key(k1, "enabled")).val
          /\ ~ParsePolicyFromSDK(k1, volMetadata).ok
          /\ Key(k2, "enabled") \in DOMAIN volMetadata
          /\ ~DecodeBool(volMetadata, Key(k2, "enabled")).val
          /\ Key(k3, "enabled") \notin DOMAIN volMetadata
          /\ CallIssued(k4, "ListManagedVolumeSnapshots")
(***************************************************************************)
(* The overall deadline of the expiry workflow, checked under SpecExpiry.  *)
(***************************************************************************)
\* once the deadline has fired no further snapshot is examined and no
\* further DeleteSnapshot is issued
NothingAfterDeadline == ctxDone => (idx' = idx /\ deleteCalls' = deleteCalls)

\* C37 as stated: the expiry workflow honours the overall deadline: once the
\* deadline has fired it examines no further snapshot and issues no further
\* DeleteSnapshot, and it returns an error (the deadline error, or the error
\* of the listing that the deadline cut short) instead of success.
C37_DeadlineHonoured ==
    /\ [][NothingAfterDeadline]_vars
    /\ []((xpc = "returned" /\ ctxDone) => xret # "nil")

\* C37, amended: once the deadline has fired the workflow examines no
\* further snapshot and issues no further DeleteSnapshot; it returns the
\* deadline error when a listed snapshot was left unexamined, and it returns
\* nil after a fired deadline only when every listed snapshot had been
\* examined before the deadline fired.
C37_DeadlineStopsEarly ==
    /\ [][ctxDone => (idx' = idx /\ deleteCalls' = deleteCalls /\ cinder' = cinder)]_vars
    /\ []((xpc = "returned" /\ ctxDone /\ idx < Len(managedSnapshots))
             => xret = "deadline exceeded")
    /\ []((xpc = "returned" /\ ctxDone /\ xret = "nil")
             => (managedSnapshots # <<>> /\ idx = Len(managedSnapshots)))
    /\ [](xret = "deadline exceeded" => (ctxDone /\ idx < Len(managedSnapshots)))

\* the deadline fired after the first snapshot was deleted: the workflow
\* returned the deadline error and an expired snapshot is still listed
C37_Witness ==
    /\ xpc = "returned" /\ xret = "deadline exceeded"
    /\ deleteCalls # {}
    /\ 0 < idx /\ idx < Len(managedSnapshots)
    /\ ShouldDelete(managedSnapshots[idx + 1], refTime)
    /\ managedSnapshots[idx + 1].ID \notin deleteCalls

\* the deadline fired after the last snapshot was examined: nil is returned
C37_WitnessCompleted ==
    /\ xpc = "returned" /\ xret = "nil"
    /\ ctxDone
    /\ idx = Len(managedSnapshots) /\ idx > 0
(***************************************************************************)
(* Snapshots without an expiry date, checked under SpecExpiry.             *)
(***************************************************************************)
\* the metadata carries no expiry-date tag
NoExpiryTag(snap) == SnapshotExpiryTag \notin DOMAIN snap.Metadata

\* C38: the expiry workflow deletes a managed snapshot only if its metadata
\* carries an expiry-date tag holding a real instant: no DeleteSnapshot is
\* issued for a managed snapshot whose expiry-date tag is absent (whose
\* parsed expiry date is the zero instant).
C38_NoExpiryNeverDeleted ==
    \A snap \in cinder \cup Processed :
        (IsManaged(snap) /\ NoExpiryTag(snap)) =>
            /\ IsZero(RecordedExpiry(snap))
            /\ snap.ID \notin deleteCalls
(***************************************************************************)
(* internal/cloud/openstack: ListSubscribedVolumes (volume.go) and         *)
(* ListManagedVolumeSnapshots (snapshot.go), each a closure appending to a *)
(* slice of the enclosing function, run by the retry executor.             *)
(***************************************************************************)
MaxHistory == 3

\* the retry settings of the creation workflow, in seconds
ListRetryConfig == [MaxRetries |-> 3, BaseDelay |-> 2, MaxDelay |-> 10, OperationTimeout |-> 30]

ListErrors == {ResponseCodeErr(503), ResponseCodeErr(404)}

ListDurations == {1, 12}

\* the instant of the listing
HistoryNow == CivilMinutes(2025, 3, 30, 12, 0)

HistoryMetadata(kind, expiryText) ==
    [TaggedMetadata(TrueText, expiryText) EXCEPT ![SnapshotPolicyTypeTag] = kind]

\* the snapshot at position n of the listing; the service lists newest first
HistorySnapshot(n, volumeID, status, metadata) ==
    [ID |-> SnapID(n), VolumeID |-> volumeID, Status |-> status,
     CreatedAt |-> HistoryNow - 60 * n, Metadata |-> metadata]

\* snapshots the service can hold at one position: a daily and a weekly one
\* of the volume, a daily one whose expiry date does not parse, a daily one
\* in status error, a daily one of another volume, and one without metadata
HistoryInputs(n) ==
    {HistorySnapshot(n, "vol-1", "available",
                     HistoryMetadata("daily", FormatRFC3339(HistoryNow + 60, "UTC"))),
     HistorySnapshot(n, "vol-1", "available",
                     HistoryMetadata("weekly", FormatRFC3339(HistoryNow + 60, "UTC"))),
     HistorySnapshot(n, "vol-1", "available", HistoryMetadata("daily", EmptyText)),
     HistorySnapshot(n, "vol-1", "error",
                     HistoryMetadata("daily", FormatRFC3339(HistoryNow + 60, "UTC"))),
     HistorySnapshot(n, "vol-2", "available",
                     HistoryMetadata("daily", FormatRFC3339(HistoryNow + 60, "UTC"))),
     HistorySnapshot(n, "vol-1", "available", <<>>)}

HistoryStores ==
    {f \in [1..MaxHistory -> UNION {HistoryInputs(n) : n \in 1..MaxHistory}] :
        \A n \in 1..MaxHistory : f[n] \in HistoryInputs(n)}

HistoryArgs ==
    [volumeID : {"vol-1"}, policyType : {"daily", "weekly"}, lastSnapshotOnly : BOOLEAN]

RECURSIVE Chunk(_, _)
\* a list cut into pages of the given size
Chunk(list, size) ==
    IF list = <<>> THEN <<>>
    ELSE IF Len(list) <= size THEN <<list>>
    ELSE <<SubSeq(list, 1, size)>> \o Chunk(SubSeq(list, size + 1, Len(list)), size)

PageSizes == {1, 2}

\* the subscribed volumes of the project, as the service pages them
VolumePageInputs ==
    {Chunk([i \in 1..n |-> VolID(i)], size) : n \in 0..MaxVolumes, size \in PageSizes}

InitList ==
    /\ LstFrameIdle
    /\ lpc = "idle"
    /\ \/ /\ listFn = "ListSubscribedVolumes"
          /\ listArgs = <<>>
          /\ volumePages \in VolumePageInputs
          /\ snapshotStore = <<>>
       \/ /\ listFn = "ListManagedVolumeSnapshots"
          /\ listArgs \in HistoryArgs
          /\ volumePages = <<>>
          /\ snapshotStore \in HistoryStores
    /\ collected = <<>>
    /\ pageNo = 0
    /\ partial = FALSE
    /\ listResult = <<>>
    /\ listErr = Nil

\* c.executeWithRetry(ctx, name, listOperation)
ListCall ==
    /\ lpc = "idle"
    /\ rpc = "idle"
    /\ lpc' = "listing"
    /\ rcfg' = ListRetryConfig
    /\ parentCtx' = NoDeadlineCtx
    /\ rpc' = "entry"
    /\ UNCHANGED <<startedAt, clock, deadline, attempt, attemptAt, opCalls, opFails, sleeps,
                   lastSleep, lastErr, retErr, outcome>>
    /\ UNCHANGED <<listFn, listArgs, volumePages, snapshotStore, collected, pageNo, partial,
                   listResult, listErr>>
    /\ UNCHANGED lstCallFrame

\* a variant that leaves the slice as the attempt before left it
ResetSlice_keep(slice) == slice

\* allVolumes = []volumes.Volume{}, managedSnapshots = []snapshots.Snapshot{}
ResetSlice(slice) == <<>>

\* ListSubscribedVolumes: an attempt begins, the slice is reset and the pager
\* is created
listOperationBegin ==
    /\ rpc = "call"
    /\ lpc = "listing"
    /\ listFn = "ListSubscribedVolumes"
    /\ collected' = ResetSlice(collected)
    /\ pageNo' = 0
    /\ lpc' = "paging"
    /\ UNCHANGED <<listFn, listArgs, volumePages, snapshotStore, partial, listResult, listErr>>
    /\ UNCHANGED retryVars
    /\ UNCHANGED lstCallFrame

\* the EachPage callback on the next page: allVolumes = append(allVolumes, vols...)
EachPage ==
    /\ lpc = "paging"
    /\ pageNo < Len(volumePages)
    /\ collected' = collected \o volumePages[pageNo + 1]
    /\ pageNo' = pageNo + 1
    /\ UNCHANGED <<lpc, listFn, listArgs, volumePages, snapshotStore, partial, listResult,
                   listErr>>
    /\ UNCHANGED retryVars
    /\ UNCHANGED lstCallFrame

\* the request for the next page, or ExtractVolumes on it, fails: EachPage
\* returns the error and the attempt ends with what was appended so far
PageFails ==
    /\ lpc = "paging"
    /\ \E e \in ListErrors : \E d \in ListDurations : OperationReturns(e, d)
    /\ partial' = (partial \/ collected # <<>>)
    /\ lpc' = "listing"
    /\ UNCHANGED <<listFn, listArgs, volumePages, snapshotStore, collected, pageNo, listResult,
                   listErr>>
    /\ UNCHANGED lstCallFrame

\* no page is left: EachPage returns nil
PagesEnd ==
    /\ lpc = "paging"
    /\ pageNo = Len(volumePages)
    /\ \E d \in ListDurations : OperationReturns(Nil, d)
    /\ lpc' = "listing"
    /\ UNCHANGED <<listFn, listArgs, volumePages, snapshotStore, collected, pageNo, partial,
                   listResult, listErr>>
    /\ UNCHANGED lstCallFrame

\* snapshots.List with Status "available" and the VolumeID, in the order of
\* the service
snapshotsList(store, volumeID) ==
    SelectSeq(store, LAMBDA s : s.Status = "available" /\ s.VolumeID = volumeID)

RECURSIVE filterFrom(_, _, _, _, _)
\* the loop over snaps from position i: a snapshot whose decoded policy type
\* is the one asked for is appended, and with lastSnapshotOnly the first one
\* appended ends the loop
filterFrom(snaps, i, wantedType, lastSnapshotOnly, slice) ==
    IF i > Len(snaps) THEN slice
    ELSE IF SnapshotMetadataParseFromMetadata(snaps[i].Metadata).PolicyType = wantedType
    THEN IF lastSnapshotOnly THEN Append(slice, snaps[i])
         ELSE filterFrom(snaps, i + 1, wantedType, lastSnapshotOnly, Append(slice, snaps[i]))
    ELSE filterFrom(snaps, i + 1, wantedType, lastSnapshotOnly, slice)

\* a variant that never returns early
FilterByPolicyType_all(slice, snaps, wantedType, lastSnapshotOnly) ==
    filterFrom(snaps, 1, wantedType, FALSE, slice)

\* "Filter by Metadata Policy Type"
FilterByPolicyType(slice, snaps, wantedType, lastSnapshotOnly) ==
    filterFrom(snaps, 1, wantedType, lastSnapshotOnly, slice)

\* ListManagedVolumeSnapshots: one attempt; the slice is reset, AllPages
\* fails or answers, and the answer is filtered
snapshotListOperation ==
    /\ rpc = "call"
    /\ lpc = "listing"
    /\ listFn = "ListManagedVolumeSnapshots"
    /\ \/ /\ \E e \in ListErrors : \E d \in ListDurations : OperationReturns(e, d)
          /\ collected' = ResetSlice(collected)
       \/ \E d \in ListDurations :
             /\ OperationReturns(Nil, d)
             /\ collected' =
                   IF clock + d > deadline THEN ResetSlice(collected)
                   ELSE FilterByPolicyType(ResetSlice(collected),
                                           snapshotsList(snapshotStore, listArgs.volumeID),
                                           listArgs.policyType, listArgs.lastSnapshotOnly)
    /\ UNCHANGED <<lpc, listFn, listArgs, volumePages, snapshotStore, pageNo, partial,
                   listResult, listErr>>
    /\ UNCHANGED lstCallFrame

\* the listing returns the slice, or no slice and the error
ListReturn ==
    /\ lpc = "listing"
    /\ rpc = "returned"
    /\ outcome # "panic"
    /\ listErr' = retErr
    /\ listResult' = IF retErr # Nil THEN <<>> ELSE collected
    /\ lpc' = "returned"
    /\ UNCHANGED <<listFn, listArgs, volumePages, snapshotStore, collected, pageNo, partial>>
    /\ UNCHANGED lstFrame

NextList ==
    \/ ListCall
    \/ ExecuteActionEnter
    \/ PreCheck
    \/ Backoff
    \/ listOperationBegin
    \/ EachPage
    \/ PageFails
    \/ PagesEnd
    \/ snapshotListOperation
    \/ ListReturn

SpecList == InitList /\ [][NextList]_vars
(***************************************************************************)
(* Claims about the listings, checked under SpecList.                      *)
(***************************************************************************)
\* ListManagedVolumeSnapshots has returned a slice
HistoryReturned ==
    /\ lpc = "returned"
    /\ listFn = "ListManagedVolumeSnapshots"
    /\ listErr = Nil

\* the positions of the available snapshots of the volume whose metadata
\* reads as the policy type asked for
StatedMatches ==
    {i \in 1..Len(snapshotStore) :
        /\ snapshotStore[i].Status = "available"
        /\ snapshotStore[i].VolumeID = listArgs.volumeID
        /\ ~FailsToParse(snapshotStore[i].Metadata)
        /\ DecodeString(snapshotStore[i].Metadata, SnapshotPolicyTypeTag).val
              = listArgs.policyType}

NoDuplicates(list) == \A i, j \in 1..Len(list) : i # j => list[i] # list[j]

\* C39: given that the service lists snapshots newest first, the history
\* fetch with firstOnly = true returns exactly the available snapshot of the
\* volume with the requested policy type that has the greatest createdAt, or
\* nothing when there is none; and whatever attempts failed before, the
\* slice returned holds entries of the answering attempt only: each matching
\* snapshot at most once, and nothing else.
C39_NewestOfPolicy ==
    HistoryReturned =>
        /\ listArgs.lastSnapshotOnly =>
              IF StatedMatches = {} THEN listResult = <<>>
              ELSE /\ Len(listResult) = 1
                   /\ \E i \in StatedMatches : listResult[1] = snapshotStore[i]
                   /\ \A j \in StatedMatches :
                         snapshotStore[j].CreatedAt <= listResult[1].CreatedAt
        /\ NoDuplicates(listResult)
        /\ \A k \in 1..Len(listResult) :
              \E i \in StatedMatches : listResult[k] = snapshotStore[i]
        /\ ~listArgs.lastSnapshotOnly => Len(listResult) = Cardinality(StatedMatches)

\* the newest of two daily snapshots returned, on the retry after a failed
\* attempt, although a weekly snapshot is newer than both
C39_Witness ==
    /\ HistoryReturned
    /\ listArgs.lastSnapshotOnly
    /\ opFails >= 1
    /\ Cardinality(StatedMatches) = 2
    /\ 1 \notin StatedMatches
    /\ Len(listResult) = 1
    /\ listResult[1] = snapshotStore[2]

\* no snapshot of the policy type: nothing is returned
C39_WitnessNone ==
    /\ HistoryReturned
    /\ listArgs.lastSnapshotOnly
    /\ StatedMatches = {}
    /\ listResult = <<>>
    /\ \E i \in 1..Len(snapshotStore) : snapshotStore[i].Status = "available"

\* ListSubscribedVolumes has returned a slice
VolumesReturned ==
    /\ lpc = "returned"
    /\ listFn = "ListSubscribedVolumes"
    /\ listErr = Nil

RECURSIVE Flatten(_)
\* the pages one after the other
Flatten(pages) == IF pages = <<>> THEN <<>> ELSE Head(pages) \o Flatten(Tail(pages))

\* C40: ListSubscribedVolumes returns each subscribed volume exactly once,
\* also when an attempt failed part-way through the pages and was retried:
\* the slice returned is the pages of the last, successful attempt, one after
\* the other, and nothing of the attempts before it.
C40_NoDuplicateVolumes ==
    VolumesReturned =>
        /\ listResult = Flatten(volumePages)
        /\ NoDuplicates(listResult)
        /\ \A p \in 1..Len(volumePages) : \A k \in 1..Len(volumePages[p]) :
              \E i \in 1..Len(listResult) : listResult[i] = volumePages[p][k]

\* an attempt failed after pages had been appended, the retry succeeded and
\* all volumes are returned
C40_Witness ==
    /\ VolumesReturned
    /\ partial
    /\ opFails >= 1
    /\ Len(volumePages) >= 2
    /\ Len(listResult) = MaxVolumes

====
